---- MODULE Spec2Model ----
(***************************************************************************)
(* A model of script/api_protobuf/api_protobuf.py, the generator of the    *)
(* native API's C++ message classes.  Each function of the generator is an *)
(* operator computed the way the code computes it; each specification      *)
(* draws the function's input from a bounded family in its initial state   *)
(* and applies the function in an action.                                  *)
(***************************************************************************)
EXTENDS Integers, Sequences, FiniteSets, TLC

VARIABLES
    tag_field,      \* calculate_field_id_size: self (number, wire_type)
    tag_size,       \* calculate_field_id_size: the value returned (0: not called yet)
    ti_field,       \* create_field_type_info: the field descriptor given
    ti_result,      \* create_field_type_info: what the call produced
    codec,          \* a generated field of a message travelling over the wire
    build_in,       \* build_message_type: (desc, message_source_map[desc.name])
    build_out,      \* build_message_type: what the call produced
    file_desc,      \* build_type_usage_map / main: the FileDescriptorProto
    usage,          \* main: the four maps build_type_usage_map returned
    main_out,       \* main: what the message emission loop produced
    common_in,      \* find_common_fields: the messages given
    common_out,     \* find_common_fields: the list returned
    stripped_desc,  \* the FileDescriptorProto without one of its deprecated fields
    stripped_out,   \* what build_type_usage_map and main produce on stripped_desc
    files,          \* main: the output files written so far
    service_out,    \* main: the service classes generated
    rpc_in,         \* a generated service method and the connection it runs on
    rpc_events,     \* what the generated on_<message> handler did
    size_in,        \* a message with an id and a value for each of its fields
    size_out,       \* its ESTIMATED_SIZE and the size of its encoding
    propagation     \* build_type_usage_map: message_ifdef_map, changed and iterations
                    \* while the propagation loop runs

tagVars == <<tag_field, tag_size>>
tiVars == <<ti_field, ti_result>>
codecVars == <<codec>>
buildVars == <<build_in, build_out>>
usageVars == <<file_desc, usage, main_out>>
commonVars == <<common_in, common_out>>
strippedVars == <<stripped_desc, stripped_out>>
runVars == <<files, service_out>>
rpcVars == <<rpc_in, rpc_events>>
sizeVars == <<size_in, size_out>>
propVars == <<propagation>>
oldVars == <<tagVars, tiVars, codecVars, buildVars, usageVars>>
restVars == <<commonVars, strippedVars, runVars, rpcVars, sizeVars, propVars>>
vars == <<tag_field, tag_size, ti_field, ti_result, codec, build_in, build_out,
          file_desc, usage, main_out, common_in, common_out, stripped_desc,
          stripped_out, files, service_out, rpc_in, rpc_events, size_in, size_out,
          propagation>>

\* Python's None: for a string-valued option, for an integer-valued option, and
\* for a variable that holds a record.
None == "None"
NoInt == 0 - 1
Nil == [nil |-> TRUE]

\* The parts of the state a specification does not exercise stay idle.
IdleTag == tag_field = Nil /\ tag_size = 0
IdleTi == ti_field = Nil /\ ti_result = Nil
IdleCodec == codec = Nil
IdleBuild == build_in = Nil /\ build_out = Nil
IdleUsage ==
    /\ file_desc = Nil
    /\ usage = Nil
    /\ main_out = Nil
IdleCommon == common_in = Nil /\ common_out = Nil
IdleStripped == stripped_desc = Nil /\ stripped_out = Nil
IdleRun == files = {} /\ service_out = Nil
IdleRpc == rpc_in = Nil /\ rpc_events = Nil
IdleSize == size_in = Nil /\ size_out = Nil
IdleProp == propagation = Nil
IdleRest == IdleCommon /\ IdleStripped /\ IdleRun /\ IdleRpc /\ IdleSize /\ IdleProp
IdleOld == IdleTag /\ IdleTi /\ IdleCodec /\ IdleBuild /\ IdleUsage

(***************************************************************************)
(* Wire model: WireType and TypeInfo.calculate_field_id_size               *)
(***************************************************************************)
VARINT == 0
FIXED64 == 1
LENGTH_DELIMITED == 2
START_GROUP == 3
END_GROUP == 4
FIXED32 == 5

\* The ladder of thresholds of calculate_field_id_size.
TAG_7_BITS == 128
TAG_14_BITS == 16384
TAG_21_BITS == 2097152
TAG_28_BITS == 268435456

\* Largest field number of the descriptor format, 2^29 - 1.
MAX_FIELD_NUMBER == 2 * TAG_28_BITS - 1

\* tag = (number << 3) | (wire_type & 0b111).  The tag of the largest field
\* number needs 32 bits, so the integer is kept as hi * 128 + lo, lo < 128:
\* lo is the low seven bits ((number mod 16) << 3 | wire_type & 7) and hi the
\* rest (number >> 4).
MakeTag(number, wire_type) ==
    [hi |-> number \div 16, lo |-> (number % 16) * 8 + (wire_type % 8)]

\* tag < bound, for a bound that is a multiple of 128.
TagLess(tag, bound) == tag.hi < bound \div 128

\* The mutant: the first comparison off by one (tag <= 128).
CalculateFieldIdSizeOffByOne(number, wire_type) ==
    LET tag == MakeTag(number, wire_type)
    IN  IF TagLess(tag, TAG_7_BITS) \/ (tag.hi = 1 /\ tag.lo = 0) THEN 1
        ELSE IF TagLess(tag, TAG_14_BITS) THEN 2
        ELSE IF TagLess(tag, TAG_21_BITS) THEN 3
        ELSE IF TagLess(tag, TAG_28_BITS) THEN 4
        ELSE 5

CalculateFieldIdSize(number, wire_type) ==
    LET tag == MakeTag(number, wire_type)
    IN  IF TagLess(tag, TAG_7_BITS) THEN 1
        ELSE IF TagLess(tag, TAG_14_BITS) THEN 2
        ELSE IF TagLess(tag, TAG_21_BITS) THEN 3
        ELSE IF TagLess(tag, TAG_28_BITS) THEN 4
        ELSE 5

\* The varint encoding of an unsigned integer: seven payload bits a byte, low
\* group first, the continuation bit (128) set on every byte but the last.
RECURSIVE VarintBytes(_)
VarintBytes(v) ==
    IF v < 128 THEN <<v>> ELSE <<128 + (v % 128)>> \o VarintBytes(v \div 128)

\* The varint encoding of a tag kept as hi * 128 + lo.
VarintOfTag(tag) ==
    IF tag.hi = 0 THEN <<tag.lo>> ELSE <<128 + tag.lo>> \o VarintBytes(tag.hi)

\* Field numbers tried: a window around each place where the tag size changes,
\* and both ends of the range.
TagWindow == 3
TagSteps == {TAG_7_BITS \div 8, TAG_14_BITS \div 8, TAG_21_BITS \div 8, TAG_28_BITS \div 8}
TagNumbers ==
    {n \in UNION {(s - TagWindow)..(s + TagWindow) : s \in TagSteps} : n >= 1}
        \cup (1..TagWindow) \cup ((MAX_FIELD_NUMBER - TagWindow)..MAX_FIELD_NUMBER)
TagWireTypes == 0..7

InitTag ==
    /\ tag_field \in [number : TagNumbers, wire_type : TagWireTypes]
    /\ tag_size = 0
    /\ IdleTi /\ IdleCodec /\ IdleBuild /\ IdleUsage /\ IdleRest

CallCalculateFieldIdSize ==
    /\ tag_size = 0
    /\ tag_size' = CalculateFieldIdSize(tag_field.number, tag_field.wire_type)
    /\ UNCHANGED <<tag_field, tiVars, codecVars, buildVars, usageVars, restVars>>

NextTag == CallCalculateFieldIdSize
SpecTag == InitTag /\ [][NextTag]_vars

\* The tag as one integer, where it fits 31 bits.
TagValue(f) == f.number * 8 + f.wire_type

\* C1: for every field number and wire type calculate_field_id_size returns
\* the number of bytes of the varint encoding of (number << 3) | wire_type, a
\* value in 1..5; tags 127, 16383, 2097151, 268435455 take 1, 2, 3, 4 bytes
\* and tags 128, 16384, 2097152, 268435456 take 2, 3, 4, 5.
C1_TagSizeIsVarintLength ==
    tag_size # 0 =>
        /\ tag_size = Len(VarintOfTag(MakeTag(tag_field.number, tag_field.wire_type)))
        /\ tag_size \in 1..5
        /\ tag_field.number < TAG_28_BITS \div 8 =>
            /\ TagValue(tag_field) = TAG_7_BITS - 1 => tag_size = 1
            /\ TagValue(tag_field) = TAG_7_BITS => tag_size = 2
            /\ TagValue(tag_field) = TAG_14_BITS - 1 => tag_size = 2
            /\ TagValue(tag_field) = TAG_14_BITS => tag_size = 3
            /\ TagValue(tag_field) = TAG_21_BITS - 1 => tag_size = 3
            /\ TagValue(tag_field) = TAG_21_BITS => tag_size = 4
            /\ TagValue(tag_field) = TAG_28_BITS - 1 => tag_size = 4
        /\ (tag_field.number = TAG_28_BITS \div 8 /\ tag_field.wire_type = 0) => tag_size = 5

\* The size was computed for a tag of exactly 128 and for one of 268435455.
C1_Witness ==
    /\ tag_size # 0
    /\ \/ tag_field = [number |-> TAG_7_BITS \div 8, wire_type |-> 0]
       \/ tag_field = [number |-> (TAG_28_BITS \div 8) - 1, wire_type |-> 7]

(***************************************************************************)
(* Field descriptors.  A field is a record                                 *)
(*   [name, number, type, label, type_name, deprecated, field_ifdef,       *)
(*    fixed_array_size]                                                    *)
(* with type the FieldDescriptorProto type number, label 3 for repeated,   *)
(* type_name the last component of the referenced message or enum ("" for  *)
(* scalars), and None for an option that is not set.                       *)
(***************************************************************************)
TYPE_DOUBLE == 1
TYPE_FLOAT == 2
TYPE_INT64 == 3
TYPE_UINT64 == 4
TYPE_INT32 == 5
TYPE_FIXED64 == 6
TYPE_FIXED32 == 7
TYPE_BOOL == 8
TYPE_STRING == 9
TYPE_MESSAGE == 11
TYPE_BYTES == 12
TYPE_UINT32 == 13
TYPE_ENUM == 14
TYPE_SFIXED32 == 15
TYPE_SFIXED64 == 16
TYPE_SINT32 == 17
TYPE_SINT64 == 18

LABEL_OPTIONAL == 1
LABEL_REPEATED == 3

\* The keys of TYPE_INFO: every @register_type(n).
RegisteredTypes ==
    {TYPE_DOUBLE, TYPE_FLOAT, TYPE_INT64, TYPE_UINT64, TYPE_INT32, TYPE_FIXED64,
     TYPE_FIXED32, TYPE_BOOL, TYPE_STRING, TYPE_MESSAGE, TYPE_BYTES, TYPE_UINT32,
     TYPE_ENUM, TYPE_SFIXED32, TYPE_SFIXED64, TYPE_SINT32, TYPE_SINT64}

UNSUPPORTED_TYPES == {TYPE_DOUBLE, TYPE_FIXED64, TYPE_SFIXED64, TYPE_SINT64}

\* An exception leaving a function.
Raise(kind, where) == [error |-> kind, raised_in |-> where]
IsError(r) == "error" \in DOMAIN r

\* validate_field_type: TRUE when it raises ValueError.
ValidateFieldTypeRaises(field_type) == field_type \in UNSUPPORTED_TYPES

\* TYPE_INFO[field.type](field): the registered class built with the default
\* needs_decode = needs_encode = True; a KeyError for a type that is not
\* registered.
TypeInfoOf(field, where) ==
    IF field.type \notin RegisteredTypes THEN Raise("KeyError", where)
    ELSE [cls |-> "scalar", type |-> field.type, field |-> field,
          needs_decode |-> TRUE, needs_encode |-> TRUE]

\* BytesType(field, needs_decode, needs_encode)
BytesTypeInit(field, needs_decode, needs_encode) ==
    [cls |-> "scalar", type |-> TYPE_BYTES, field |-> field,
     needs_decode |-> needs_decode, needs_encode |-> needs_encode]

\* FixedArrayBytesType.__init__
FixedArrayBytesTypeInit(field, size) ==
    [cls |-> "FixedArrayBytesType", type |-> TYPE_BYTES, field |-> field,
     array_size |-> size, needs_decode |-> TRUE, needs_encode |-> TRUE]

\* The mutant: the element type of a fixed array is not validated.
FixedArrayRepeatedTypeInitUnvalidated(field, size) ==
    LET ti == TypeInfoOf(field, "FixedArrayRepeatedType.__init__")
    IN  IF IsError(ti) THEN ti
        ELSE [cls |-> "FixedArrayRepeatedType", type |-> field.type, field |-> field,
              array_size |-> size, ti |-> ti,
              needs_decode |-> TRUE, needs_encode |-> TRUE]

\* FixedArrayRepeatedType.__init__
FixedArrayRepeatedTypeInit(field, size) ==
    IF ValidateFieldTypeRaises(field.type)
    THEN Raise("ValueError: 64-bit type is not supported", "FixedArrayRepeatedType.__init__")
    ELSE LET ti == TypeInfoOf(field, "FixedArrayRepeatedType.__init__")
         IN  IF IsError(ti) THEN ti
             ELSE [cls |-> "FixedArrayRepeatedType", type |-> field.type, field |-> field,
                   array_size |-> size, ti |-> ti,
                   needs_decode |-> TRUE, needs_encode |-> TRUE]

\* RepeatedTypeInfo.__init__
RepeatedTypeInfoInit(field) ==
    IF field.type = TYPE_BYTES /\ field.fixed_array_size # NoInt
    THEN [cls |-> "RepeatedTypeInfo", type |-> field.type, field |-> field,
          ti |-> FixedArrayBytesTypeInit(field, field.fixed_array_size),
          needs_decode |-> TRUE, needs_encode |-> TRUE]
    ELSE IF ValidateFieldTypeRaises(field.type)
    THEN Raise("ValueError: 64-bit type is not supported", "RepeatedTypeInfo.__init__")
    ELSE LET ti == TypeInfoOf(field, "RepeatedTypeInfo.__init__")
         IN  IF IsError(ti) THEN ti
             ELSE [cls |-> "RepeatedTypeInfo", type |-> field.type, field |-> field,
                   ti |-> ti, needs_decode |-> TRUE, needs_encode |-> TRUE]

\* create_field_type_info
CreateFieldTypeInfo(field, needs_decode, needs_encode) ==
    IF field.label = LABEL_REPEATED
    THEN IF field.fixed_array_size # NoInt
         THEN FixedArrayRepeatedTypeInit(field, field.fixed_array_size)
         ELSE RepeatedTypeInfoInit(field)
    ELSE IF field.type = TYPE_BYTES /\ field.fixed_array_size # NoInt
    THEN FixedArrayBytesTypeInit(field, field.fixed_array_size)
    ELSE IF field.type = TYPE_BYTES
    THEN BytesTypeInit(field, needs_decode, needs_encode)
    ELSE IF ValidateFieldTypeRaises(field.type)
    THEN Raise("ValueError: 64-bit type is not supported", "create_field_type_info")
    ELSE TypeInfoOf(field, "create_field_type_info")

\* A field descriptor with the given type, label and options.
MkField(name, number, type, label, type_name, deprecated, field_ifdef, fixed_array_size) ==
    [name |-> name, number |-> number, type |-> type, label |-> label,
     type_name |-> type_name, deprecated |-> deprecated,
     field_ifdef |-> field_ifdef, fixed_array_size |-> fixed_array_size]

\* The type name a field of the given type carries in the families below.
TypeNameFor(type) ==
    IF type = TYPE_MESSAGE THEN "Sub" ELSE IF type = TYPE_ENUM THEN "Enum" ELSE ""

\* Fixed array sizes tried: none, and 1..MaxArraySize.
MaxArraySize == 3
ArraySizes == {NoInt} \cup (1..MaxArraySize)

FieldTypes == 1..18

TiFields ==
    {MkField("f", 1, t, l, TypeNameFor(t), FALSE, None, s) :
        t \in FieldTypes, l \in {LABEL_OPTIONAL, LABEL_REPEATED}, s \in ArraySizes}

\* (needs_decode, needs_encode) of the three source directions.
NeedsOfSources == {<<TRUE, TRUE>>, <<FALSE, TRUE>>, <<TRUE, FALSE>>}

InitTypeInfo ==
    /\ ti_field \in [field : TiFields, needs : NeedsOfSources]
    /\ ti_result = Nil
    /\ IdleTag /\ IdleCodec /\ IdleBuild /\ IdleUsage /\ IdleRest

CallCreateFieldTypeInfo ==
    /\ ti_result = Nil
    /\ ti_result' = CreateFieldTypeInfo(ti_field.field, ti_field.needs[1], ti_field.needs[2])
    /\ UNCHANGED <<ti_field, tagVars, codecVars, buildVars, usageVars, restVars>>

NextTypeInfo == CallCreateFieldTypeInfo
SpecTypeInfo == InitTypeInfo /\ [][NextTypeInfo]_vars

\* The constructor a field's type-info is validated in.
ConstructionPath(field) ==
    IF field.label = LABEL_REPEATED
    THEN IF field.fixed_array_size # NoInt THEN "FixedArrayRepeatedType.__init__"
         ELSE "RepeatedTypeInfo.__init__"
    ELSE "create_field_type_info"

\* C5: creating a type-info for a double, fixed64, sfixed64 or sint64 field
\* raises an error on every construction path (singular, growable repeated,
\* fixed-capacity repeated) and returns no type-info.
C5_UnsupportedTypesRaise ==
    (ti_result # Nil /\ ti_field.field.type \in {TYPE_DOUBLE, TYPE_FIXED64, TYPE_SFIXED64, TYPE_SINT64}) =>
        /\ IsError(ti_result)
        /\ ti_result.error = "ValueError: 64-bit type is not supported"
        /\ ti_result.raised_in = ConstructionPath(ti_field.field)

\* A fixed-capacity repeated sint64 field was given and the call has returned.
C5_Witness ==
    /\ ti_result # Nil
    /\ ti_field.field.type = TYPE_SINT64
    /\ ti_field.field.label = LABEL_REPEATED
    /\ ti_field.field.fixed_array_size = 2

(***************************************************************************)
(* Field Type Registry: the class attributes of the registered TypeInfo    *)
(* classes, by type number.                                                *)
(***************************************************************************)
\* decode_varint of the class registered for the type (None: the base class
\* default).  EnumType casts value.as_uint32() to the enum type.
DecodeVarint(type) ==
    CASE type = TYPE_INT64 -> "as_int64"
      [] type = TYPE_UINT64 -> "as_uint64"
      [] type = TYPE_INT32 -> "as_int32"
      [] type = TYPE_BOOL -> "as_bool"
      [] type = TYPE_UINT32 -> "as_uint32"
      [] type = TYPE_ENUM -> "static_cast<enum>(as_uint32)"
      [] type = TYPE_SINT32 -> "as_sint32"
      [] type = TYPE_SINT64 -> "as_sint64"
      [] OTHER -> None

\* decode_length (MessageType overrides it to return None).
DecodeLength(type) ==
    CASE type = TYPE_STRING -> "as_string"
      [] type = TYPE_BYTES -> "as_string"
      [] OTHER -> None

\* decode_32bit
Decode32Bit(type) ==
    CASE type = TYPE_FLOAT -> "as_float"
      [] type = TYPE_FIXED32 -> "as_fixed32"
      [] type = TYPE_SFIXED32 -> "as_sfixed32"
      [] OTHER -> None

\* decode_64bit
Decode64Bit(type) ==
    CASE type = TYPE_DOUBLE -> "as_double"
      [] type = TYPE_FIXED64 -> "as_fixed64"
      [] type = TYPE_SFIXED64 -> "as_sfixed64"
      [] OTHER -> None

\* The mutant: SInt32Type encodes with the plain int32 function.
EncodeFuncSInt32AsInt32(type) ==
    CASE type = TYPE_DOUBLE -> "encode_double"
      [] type = TYPE_FLOAT -> "encode_float"
      [] type = TYPE_INT64 -> "encode_int64"
      [] type = TYPE_UINT64 -> "encode_uint64"
      [] type = TYPE_INT32 -> "encode_int32"
      [] type = TYPE_FIXED64 -> "encode_fixed64"
      [] type = TYPE_FIXED32 -> "encode_fixed32"
      [] type = TYPE_BOOL -> "encode_bool"
      [] type = TYPE_STRING -> "encode_string"
      [] type = TYPE_MESSAGE -> "encode_message"
      [] type = TYPE_BYTES -> "encode_bytes"
      [] type = TYPE_UINT32 -> "encode_uint32"
      [] type = TYPE_ENUM -> "encode_uint32"
      [] type = TYPE_SFIXED32 -> "encode_sfixed32"
      [] type = TYPE_SFIXED64 -> "encode_sfixed64"
      [] type = TYPE_SINT32 -> "encode_int32"
      [] type = TYPE_SINT64 -> "encode_sint64"

\* encode_func
EncodeFunc(type) ==
    CASE type = TYPE_DOUBLE -> "encode_double"
      [] type = TYPE_FLOAT -> "encode_float"
      [] type = TYPE_INT64 -> "encode_int64"
      [] type = TYPE_UINT64 -> "encode_uint64"
      [] type = TYPE_INT32 -> "encode_int32"
      [] type = TYPE_FIXED64 -> "encode_fixed64"
      [] type = TYPE_FIXED32 -> "encode_fixed32"
      [] type = TYPE_BOOL -> "encode_bool"
      [] type = TYPE_STRING -> "encode_string"
      [] type = TYPE_MESSAGE -> "encode_message"
      [] type = TYPE_BYTES -> "encode_bytes"
      [] type = TYPE_UINT32 -> "encode_uint32"
      [] type = TYPE_ENUM -> "encode_uint32"
      [] type = TYPE_SFIXED32 -> "encode_sfixed32"
      [] type = TYPE_SFIXED64 -> "encode_sfixed64"
      [] type = TYPE_SINT32 -> "encode_sint32"
      [] type = TYPE_SINT64 -> "encode_sint64"

\* wire_type of the class registered for the type.
WireTypeOfType(type) ==
    CASE type \in {TYPE_DOUBLE, TYPE_FIXED64, TYPE_SFIXED64} -> FIXED64
      [] type \in {TYPE_FLOAT, TYPE_FIXED32, TYPE_SFIXED32} -> FIXED32
      [] type \in {TYPE_STRING, TYPE_MESSAGE, TYPE_BYTES} -> LENGTH_DELIMITED
      [] OTHER -> VARINT

\* wire_type of a type-info: the wrappers delegate to the element type,
\* FixedArrayBytesType is length delimited.
WireTypeOf(ti) ==
    IF ti.cls = "FixedArrayBytesType" THEN LENGTH_DELIMITED
    ELSE IF ti.cls \in {"RepeatedTypeInfo", "FixedArrayRepeatedType"}
    THEN (IF ti.ti.cls = "FixedArrayBytesType" THEN LENGTH_DELIMITED
          ELSE WireTypeOfType(ti.ti.type))
    ELSE WireTypeOfType(ti.type)

\* The class attribute decode_varint / decode_length / decode_32bit /
\* decode_64bit as seen on a type-info instance: the wrappers and
\* FixedArrayBytesType inherit the base class default, None.
DecodeAttr(ti, entry) ==
    IF ti.cls # "scalar" THEN None
    ELSE CASE entry = "varint" -> DecodeVarint(ti.type)
           [] entry = "length" -> DecodeLength(ti.type)
           [] entry = "32bit" -> Decode32Bit(ti.type)
           [] entry = "64bit" -> Decode64Bit(ti.type)

NoContent == [stmt |-> None]

\* TypeInfo.decode_varint_content, decode_length_content, decode_32bit_content
\* and decode_64bit_content, with the overrides of MessageType,
\* FixedArrayBytesType and RepeatedTypeInfo: the case a field adds to the
\* switch of the decode entry point, NoContent when it adds none.
DecodeContent(ti, entry) ==
    CASE ti.cls = "scalar" ->
            IF ti.type = TYPE_MESSAGE /\ entry = "length"
            THEN [stmt |-> "decode_to_message", number |-> ti.field.number]
            ELSE IF DecodeAttr(ti, entry) = None THEN NoContent
            ELSE [stmt |-> "assign", number |-> ti.field.number,
                  accessor |-> DecodeAttr(ti, entry)]
      [] ti.cls = "FixedArrayBytesType" ->
            IF entry = "length"
            THEN [stmt |-> "memcpy_truncated", number |-> ti.field.number,
                  array_size |-> ti.array_size]
            ELSE NoContent
      [] ti.cls = "FixedArrayRepeatedType" -> NoContent
      [] ti.cls = "RepeatedTypeInfo" ->
            IF entry = "length" /\ DecodeAttr(ti.ti, entry) = None
               /\ ti.ti.cls = "scalar" /\ ti.ti.type = TYPE_MESSAGE
            THEN [stmt |-> "emplace_back_decode_to_message", number |-> ti.field.number]
            ELSE IF DecodeAttr(ti.ti, entry) = None THEN NoContent
            ELSE [stmt |-> "push_back", number |-> ti.field.number,
                  accessor |-> DecodeAttr(ti.ti, entry)]

\* encode_content of a singular field: TypeInfo.encode_content with the
\* overrides of EnumType, BytesType and FixedArrayBytesType.
SingularEncodeContent(ti) ==
    CASE ti.cls = "FixedArrayBytesType" ->
            [stmt |-> "call", func |-> "encode_bytes", number |-> ti.field.number,
             arg |-> "field,field_len", force |-> FALSE]
      [] ti.cls = "scalar" /\ ti.type = TYPE_BYTES ->
            [stmt |-> "call", func |-> "encode_bytes", number |-> ti.field.number,
             arg |-> "field_ptr_,field_len_", force |-> FALSE]
      [] ti.cls = "scalar" /\ ti.type = TYPE_ENUM ->
            [stmt |-> "call", func |-> EncodeFunc(ti.type), number |-> ti.field.number,
             arg |-> "static_cast<uint32_t>(field)", force |-> FALSE]
      [] ti.cls = "scalar" /\ ti.type \notin {TYPE_BYTES, TYPE_ENUM} ->
            [stmt |-> "call", func |-> EncodeFunc(ti.type), number |-> ti.field.number,
             arg |-> "field", force |-> FALSE]

(***************************************************************************)
(* The runtime the generated code calls (proto.h): ProtoWriteBuffer's      *)
(* encode functions, the accessors of ProtoVarInt, Proto32Bit and          *)
(* ProtoLengthDelimited, and the dispatch of ProtoDecodableMessage::decode *)
(* on the wire type.  Integers are Bits32 and Bits64 bits wide; a bool is  *)
(* 0 or 1, a float its bit pattern, a string or bytes a sequence of bytes. *)
(***************************************************************************)
Bits32 == 3
Bits64 == 5

RECURSIVE Pow2(_)
Pow2(n) == IF n = 0 THEN 1 ELSE 2 * Pow2(n - 1)

\* Two's complement: the unsigned value of a signed one and back.
ToUnsigned(v, bits) == IF v < 0 THEN v + Pow2(bits) ELSE v
ToSigned(u, bits) == IF u >= Pow2(bits - 1) THEN u - Pow2(bits) ELSE u
Truncate(u, bits) == u % Pow2(bits)

\* The zig-zag code of a signed 32-bit value and its inverse.
ZigZag(v) == IF v < 0 THEN (0 - 2 * v) - 1 ELSE 2 * v
UnZigZag(u) == IF u % 2 = 0 THEN u \div 2 ELSE 0 - ((u + 1) \div 2)

\* The wire type and the payload an encode function writes for a value.
ProtoPayload(func, value) ==
    CASE func = "encode_bool" -> [wire_type |-> VARINT, payload |-> value]
      [] func = "encode_uint32" -> [wire_type |-> VARINT, payload |-> value]
      [] func = "encode_uint64" -> [wire_type |-> VARINT, payload |-> value]
      [] func = "encode_int32" ->
            [wire_type |-> VARINT, payload |-> ToUnsigned(value, Bits64)]
      [] func = "encode_int64" ->
            [wire_type |-> VARINT, payload |-> ToUnsigned(value, Bits64)]
      [] func = "encode_sint32" -> [wire_type |-> VARINT, payload |-> ZigZag(value)]
      [] func = "encode_fixed32" -> [wire_type |-> FIXED32, payload |-> value]
      [] func = "encode_sfixed32" ->
            [wire_type |-> FIXED32, payload |-> ToUnsigned(value, Bits32)]
      [] func = "encode_float" -> [wire_type |-> FIXED32, payload |-> value]
      [] func = "encode_string" -> [wire_type |-> LENGTH_DELIMITED, payload |-> value]
      [] func = "encode_bytes" -> [wire_type |-> LENGTH_DELIMITED, payload |-> value]

\* ProtoWriteBuffer::encode_*(field_id, value, force): nothing for a zero or
\* empty value unless forced, else the tag and the payload.
ProtoEncode(func, field_id, value, force) ==
    LET zero == IF func \in {"encode_string", "encode_bytes"} THEN value = <<>>
                ELSE value = 0
    IN  IF zero /\ ~force THEN <<>>
        ELSE <<[field_id |-> field_id,
                wire_type |-> ProtoPayload(func, value).wire_type,
                payload |-> ProtoPayload(func, value).payload]>>

\* value.as_*(): the accessors of ProtoVarInt, Proto32Bit, ProtoLengthDelimited.
ProtoAccess(accessor, payload) ==
    CASE accessor = "as_bool" -> IF payload # 0 THEN 1 ELSE 0
      [] accessor = "as_uint32" -> Truncate(payload, Bits32)
      [] accessor = "static_cast<enum>(as_uint32)" -> Truncate(payload, Bits32)
      [] accessor = "as_uint64" -> payload
      [] accessor = "as_int32" -> ToSigned(Truncate(payload, Bits32), Bits32)
      [] accessor = "as_int64" -> ToSigned(payload, Bits64)
      [] accessor = "as_sint32" -> UnZigZag(Truncate(payload, Bits32))
      [] accessor = "as_fixed32" -> payload
      [] accessor = "as_sfixed32" -> ToSigned(payload, Bits32)
      [] accessor = "as_float" -> payload
      [] accessor = "as_string" -> payload

\* ProtoDecodableMessage::decode: the entry point a wire type is handed to.
EntryPointOf(wire_type) ==
    CASE wire_type = VARINT -> "varint"
      [] wire_type = LENGTH_DELIMITED -> "length"
      [] wire_type = FIXED32 -> "32bit"
      [] wire_type = FIXED64 -> "64bit"
      [] OTHER -> None

\* The value a member initialised with default_value holds.
DefaultValueOf(type) == IF type \in {TYPE_STRING, TYPE_BYTES} THEN <<>> ELSE 0

\* The scalar types with runtime support, and the values each can hold.
CodecTypes ==
    {TYPE_BOOL, TYPE_INT32, TYPE_INT64, TYPE_UINT32, TYPE_UINT64, TYPE_SINT32,
     TYPE_FIXED32, TYPE_SFIXED32, TYPE_FLOAT, TYPE_STRING, TYPE_BYTES, TYPE_ENUM}

MaxStrLen == 2
ByteValues == {0, 255}
Strings == UNION {[1..n -> ByteValues] : n \in 0..MaxStrLen}

ValuesOf(type) ==
    CASE type = TYPE_BOOL -> {0, 1}
      [] type \in {TYPE_INT32, TYPE_SINT32, TYPE_SFIXED32} ->
            (0 - Pow2(Bits32 - 1))..(Pow2(Bits32 - 1) - 1)
      [] type = TYPE_INT64 -> (0 - Pow2(Bits64 - 1))..(Pow2(Bits64 - 1) - 1)
      [] type \in {TYPE_UINT32, TYPE_FIXED32, TYPE_FLOAT, TYPE_ENUM} -> 0..(Pow2(Bits32) - 1)
      [] type = TYPE_UINT64 -> 0..(Pow2(Bits64) - 1)
      [] type \in {TYPE_STRING, TYPE_BYTES} -> Strings

MaxCodecNumber == 2

\* The type-info build_message_type creates for a singular field of a message
\* that is both encoded and decoded.
CodecTypeInfo(type, number) ==
    CreateFieldTypeInfo(
        MkField("f", number, type, LABEL_OPTIONAL, TypeNameFor(type), FALSE, None, NoInt),
        TRUE, TRUE)

InitCodec ==
    /\ codec \in UNION {
          {[type |-> t, number |-> n, value |-> v, pc |-> "start", wire |-> <<>>,
            out |-> DefaultValueOf(t)] : v \in ValuesOf(t), n \in 1..MaxCodecNumber}
          : t \in CodecTypes}
    /\ IdleTag /\ IdleTi /\ IdleBuild /\ IdleUsage /\ IdleRest

\* The sender runs the generated encode() of the message.
GeneratedEncode ==
    /\ codec.pc = "start"
    /\ LET c == SingularEncodeContent(CodecTypeInfo(codec.type, codec.number))
       IN  codec' = [codec EXCEPT
                !.pc = "encoded",
                !.wire = ProtoEncode(c.func, c.number, codec.value, c.force)]
    /\ UNCHANGED <<tagVars, tiVars, buildVars, usageVars, restVars>>

\* The field after the receiver handed one wire element to the generated
\* decode_varint / decode_length / decode_32bit / decode_64bit.
DecodeElement(ti, field_value, element) ==
    LET entry == EntryPointOf(element.wire_type)
        c == IF entry = None THEN NoContent ELSE DecodeContent(ti, entry)
    IN  IF c.stmt = "assign" /\ c.number = element.field_id
        THEN ProtoAccess(c.accessor, element.payload)
        ELSE field_value

\* The receiver decodes the bytes into a newly constructed message.
GeneratedDecode ==
    /\ codec.pc = "encoded"
    /\ LET ti == CodecTypeInfo(codec.type, codec.number)
       IN  codec' = [codec EXCEPT
                !.pc = "decoded",
                !.out = IF codec.wire = <<>> THEN DefaultValueOf(codec.type)
                        ELSE DecodeElement(ti, DefaultValueOf(codec.type), codec.wire[1])]
    /\ UNCHANGED <<tagVars, tiVars, buildVars, usageVars, restVars>>

NextCodec == GeneratedEncode \/ GeneratedDecode
SpecCodec == InitCodec /\ [][NextCodec]_vars

\* C2: for every supported scalar type the emitted encode function and the
\* emitted decode accessor are inverse to each other and the accessor sits in
\* the decode entry point of the type's wire type, so a value, zero included
\* (left out by encode, left at its default by decode), decodes to itself.
C2_RoundTrip ==
    /\ codec.pc = "decoded" => codec.out = codec.value
    /\ codec.pc = "encoded" =>
        /\ codec.wire = <<>> <=> codec.value = DefaultValueOf(codec.type)
        /\ \A i \in 1..Len(codec.wire) :
            /\ codec.wire[i].wire_type = WireTypeOf(CodecTypeInfo(codec.type, codec.number))
            /\ DecodeContent(CodecTypeInfo(codec.type, codec.number),
                             EntryPointOf(codec.wire[i].wire_type)).stmt = "assign"

\* A negative sint32 value went over the wire and was decoded.
C2_Witness ==
    /\ codec.pc = "decoded"
    /\ codec.type = TYPE_SINT32
    /\ codec.value < 0
    /\ codec.wire # <<>>

(***************************************************************************)
(* Code emission per field: encode, size calculation and estimated size.   *)
(* An emitted statement is a record naming the runtime function called and *)
(* what it is applied to.                                                  *)
(***************************************************************************)
\* FixedArrayRepeatedType.encode_content: one forced call per element,
\* unrolled for sizes 1 and 2, a range-for loop over the array otherwise.
FixedArrayEncodeContent(ti) ==
    LET arg(e) == IF ti.ti.type = TYPE_ENUM THEN "static_cast<uint32_t>(" \o e \o ")" ELSE e
        call(e) == [func |-> EncodeFunc(ti.ti.type), number |-> ti.field.number,
                    arg |-> arg(e), force |-> TRUE]
    IN  IF ti.array_size = 1
        THEN [stmt |-> "unrolled", calls |-> <<call("field[0]")>>]
        ELSE IF ti.array_size = 2
        THEN [stmt |-> "unrolled", calls |-> <<call("field[0]"), call("field[1]")>>]
        ELSE [stmt |-> "for", over |-> "field", calls |-> <<call("it")>>]

\* RepeatedTypeInfo.encode_content: a loop over the vector, one forced call
\* per element.  encode_func of an element that is a FixedArrayBytesType is
\* the base class default, None.
RepeatedEncodeContent(ti) ==
    LET func == IF ti.ti.cls = "scalar" THEN EncodeFunc(ti.ti.type) ELSE None
    IN  [stmt |-> "for", over |-> "field",
         calls |-> <<[func |-> func, number |-> ti.field.number,
                      arg |-> IF ti.ti.type = TYPE_ENUM /\ ti.ti.cls = "scalar"
                              THEN "static_cast<uint32_t>(it)" ELSE "it",
                      force |-> TRUE]>>]

\* ti.encode_content
EncodeContent(ti) ==
    CASE ti.cls = "FixedArrayRepeatedType" -> FixedArrayEncodeContent(ti)
      [] ti.cls = "RepeatedTypeInfo" -> RepeatedEncodeContent(ti)
      [] OTHER -> SingularEncodeContent(ti)

\* self.calculate_field_id_size() of a type-info.
FieldIdSize(ti) == CalculateFieldIdSize(ti.field.number, WireTypeOf(ti))

\* get_fixed_size_bytes
FixedSizeBytes(ti) ==
    IF ti.cls # "scalar" THEN NoInt
    ELSE CASE ti.type \in {TYPE_DOUBLE, TYPE_FIXED64, TYPE_SFIXED64} -> 8
           [] ti.type \in {TYPE_FLOAT, TYPE_FIXED32, TYPE_SFIXED32} -> 4
           [] OTHER -> NoInt

\* The base method name a class passes to _get_simple_size_calculation, or
\* the method it names itself.
SizeMethod(type) ==
    CASE type = TYPE_DOUBLE -> "add_double_field"
      [] type = TYPE_FLOAT -> "add_float_field"
      [] type = TYPE_INT64 -> "add_int64_field"
      [] type = TYPE_UINT64 -> "add_uint64_field"
      [] type = TYPE_INT32 -> "add_int32_field"
      [] type = TYPE_FIXED64 -> "add_fixed64_field"
      [] type = TYPE_FIXED32 -> "add_fixed32_field"
      [] type = TYPE_BOOL -> "add_bool_field"
      [] type = TYPE_STRING -> "add_string_field"
      [] type = TYPE_MESSAGE -> "add_message_object"
      [] type = TYPE_BYTES -> "add_bytes_field"
      [] type = TYPE_UINT32 -> "add_uint32_field"
      [] type = TYPE_ENUM -> "add_enum_field"
      [] type = TYPE_SFIXED32 -> "add_sfixed32_field"
      [] type = TYPE_SFIXED64 -> "add_sfixed64_field"
      [] type = TYPE_SINT32 -> "add_sint32_field"
      [] type = TYPE_SINT64 -> "add_sint64_field"

\* get_size_calculation(name, force) of the classes that are not wrappers.
\* The fixed-width classes ignore force; BytesType ignores name and force and
\* reads this->{field_name}_len_.
ElementSizeCalculation(ti, name, force) ==
    IF ti.cls = "FixedArrayBytesType"
    THEN [stmt |-> IF force THEN "add" ELSE "add_if_nonzero",
          method |-> "varint_and_length", field_id_size |-> FieldIdSize(ti),
          value |-> "this->field_len"]
    ELSE IF ti.type = TYPE_BYTES
    THEN [stmt |-> "call", method |-> "add_bytes_field", field_id_size |-> FieldIdSize(ti),
          value |-> "this->field_len_"]
    ELSE IF FixedSizeBytes(ti) # NoInt
    THEN [stmt |-> "call", method |-> SizeMethod(ti.type), field_id_size |-> FieldIdSize(ti),
          value |-> name]
    ELSE [stmt |-> "call",
          method |-> IF force THEN SizeMethod(ti.type) \o "_repeated" ELSE SizeMethod(ti.type),
          field_id_size |-> FieldIdSize(ti),
          value |-> IF ti.type = TYPE_ENUM THEN "static_cast<uint32_t>(" \o name \o ")"
                    ELSE name]

\* get_size_calculation(name, force)
GetSizeCalculation(ti, name, force) ==
    CASE ti.cls = "FixedArrayRepeatedType" ->
            IF ti.array_size = 1
            THEN [stmt |-> "unrolled",
                  calls |-> <<ElementSizeCalculation(ti.ti, name \o "[0]", TRUE)>>]
            ELSE IF ti.array_size = 2
            THEN [stmt |-> "unrolled",
                  calls |-> <<ElementSizeCalculation(ti.ti, name \o "[0]", TRUE),
                              ElementSizeCalculation(ti.ti, name \o "[1]", TRUE)>>]
            ELSE [stmt |-> "for", over |-> name,
                  calls |-> <<ElementSizeCalculation(ti.ti, "it", TRUE)>>]
      [] ti.cls = "RepeatedTypeInfo" ->
            IF ti.ti.cls = "scalar" /\ ti.ti.type = TYPE_MESSAGE
            THEN [stmt |-> "call", method |-> "add_repeated_message",
                  field_id_size |-> FieldIdSize(ti.ti), value |-> name]
            ELSE IF FixedSizeBytes(ti.ti) # NoInt
            THEN [stmt |-> "if_not_empty_multiply", over |-> name,
                  bytes_per_element |-> FieldIdSize(ti.ti) + FixedSizeBytes(ti.ti)]
            ELSE [stmt |-> "if_not_empty_for", over |-> name,
                  calls |-> <<ElementSizeCalculation(ti.ti, "it", TRUE)>>]
      [] OTHER -> ElementSizeCalculation(ti, name, force)

\* The mutant: every class estimates one byte of data.
EstimatedDataSizeOneByte(type) == 1

\* The bytes a class adds to the field id size in get_estimated_size.
EstimatedDataSize(type) ==
    CASE type \in {TYPE_DOUBLE, TYPE_FIXED64, TYPE_SFIXED64, TYPE_STRING, TYPE_BYTES} -> 8
      [] type \in {TYPE_FLOAT, TYPE_FIXED32, TYPE_SFIXED32} -> 4
      [] type \in {TYPE_BOOL, TYPE_ENUM} -> 1
      [] type = TYPE_MESSAGE -> 16
      [] OTHER -> 3

\* get_estimated_size
GetEstimatedSize(ti) ==
    LET element(e) == IF e.cls = "FixedArrayBytesType" THEN FieldIdSize(e) + 1 + 31
                      ELSE FieldIdSize(e) + EstimatedDataSize(e.type)
    IN  CASE ti.cls = "FixedArrayRepeatedType" -> element(ti.ti) * ti.array_size
          [] ti.cls = "RepeatedTypeInfo" -> element(ti.ti) * 2
          [] OTHER -> element(ti)

\* calculate_message_estimated_size: the sum over the fields that are not
\* deprecated; an exception of create_field_type_info leaves the function.
RECURSIVE EstimatedSizeFrom(_, _, _)
EstimatedSizeFrom(fields, i, total_size) ==
    IF i > Len(fields) THEN [total_size |-> total_size]
    ELSE IF fields[i].deprecated THEN EstimatedSizeFrom(fields, i + 1, total_size)
    ELSE LET ti == CreateFieldTypeInfo(fields[i], TRUE, TRUE)
         IN  IF IsError(ti) THEN ti
             ELSE EstimatedSizeFrom(fields, i + 1, total_size + GetEstimatedSize(ti))

CalculateMessageEstimatedSize(desc) == EstimatedSizeFrom(desc.field, 1, 0)

(***************************************************************************)
(* Message descriptors and build_message_type.  A message is a record      *)
(*   [name, deprecated, ifdef, source, id, base_class, field]              *)
(* with source and id NoInt, and ifdef and base_class None, when the       *)
(* option is not set; field is the sequence of its field descriptors.      *)
(***************************************************************************)
SOURCE_BOTH == 0
SOURCE_SERVER == 1
SOURCE_CLIENT == 2

UINT8_MAX == 255

MkMessage(name, deprecated, ifdef, source, id, base_class, field) ==
    [name |-> name, deprecated |-> deprecated, ifdef |-> ifdef, source |-> source,
     id |-> id, base_class |-> base_class, field |-> field]

NeedsDecode(source) == source \in {SOURCE_BOTH, SOURCE_CLIENT}
NeedsEncode(source) == source \in {SOURCE_BOTH, SOURCE_SERVER}

\* wrap_with_ifdef: the content between #ifdef and #endif when a guard is given.
WrapWithIfdef(content, ifdef) == [ifdef |-> ifdef, content |-> content]

\* The mutant: the id is cut to eight bits instead of being rejected.
MessageTypeContentTruncating(desc) ==
    [public_content |-> <<[item |-> "MESSAGE_TYPE", value |-> desc.id % (UINT8_MAX + 1)]>>]

\* build_message_type, the MESSAGE_TYPE constant of a service message: an id
\* above 255 raises.
MessageTypeContent(desc) ==
    IF desc.id > UINT8_MAX
    THEN Raise("ValueError: Message ID exceeds uint8_t maximum (255)", "build_message_type")
    ELSE [public_content |-> <<[item |-> "MESSAGE_TYPE", value |-> desc.id]>>]

\* build_message_type, the lines added for a message with an id: MESSAGE_TYPE,
\* ESTIMATED_SIZE (an estimate above 255 raises) and message_name().
ServiceMessageContent(desc) ==
    IF desc.id = NoInt THEN [public_content |-> <<>>]
    ELSE LET mt == MessageTypeContent(desc)
             estimated_size == CalculateMessageEstimatedSize(desc)
         IN  IF IsError(mt) THEN mt
             ELSE IF IsError(estimated_size) THEN estimated_size
             ELSE IF estimated_size.total_size > UINT8_MAX
             THEN Raise("ValueError: Estimated size exceeds uint8_t maximum (255)",
                        "build_message_type")
             ELSE [public_content |->
                     mt.public_content \o
                     <<[item |-> "ESTIMATED_SIZE", value |-> estimated_size.total_size],
                       [item |-> "message_name"]>>]

\* build_message_type, the validation at the head of the field loop: TRUE when
\* it raises for the field.
FixedArrayValidationRaises(field, needs_decode) ==
    /\ needs_decode
    /\ field.label = LABEL_REPEATED
    /\ field.fixed_array_size # NoInt

\* The entries a decode entry point gains from a field.
DecodeEntries(ti, entry, field_ifdef) ==
    IF DecodeContent(ti, entry) = NoContent THEN <<>>
    ELSE <<WrapWithIfdef(DecodeContent(ti, entry), field_ifdef)>>

\* The mutant: the dump line of a field goes in front of those collected.
FieldContentDumpInFront(field, ti, common_field_names, needs_decode, needs_encode, acc) ==
    [acc EXCEPT
       !.public_content =
           IF field.name \in common_field_names THEN @
           ELSE @ \o <<WrapWithIfdef(
                    [item |-> "member", field |-> field.name, cls |-> ti.cls,
                     needs_decode |-> ti.needs_decode,
                     needs_encode |-> ti.needs_encode],
                    field.field_ifdef)>>,
       !.encode =
           IF needs_encode
           THEN @ \o <<WrapWithIfdef(EncodeContent(ti), field.field_ifdef)>>
           ELSE @,
       !.size_calc =
           IF needs_encode
           THEN @ \o <<WrapWithIfdef(
                    GetSizeCalculation(ti, "this->" \o field.name, FALSE),
                    field.field_ifdef)>>
           ELSE @,
       !.decode_varint =
           IF needs_decode
           THEN @ \o DecodeEntries(ti, "varint", field.field_ifdef) ELSE @,
       !.decode_length =
           IF needs_decode
           THEN @ \o DecodeEntries(ti, "length", field.field_ifdef) ELSE @,
       !.decode_32bit =
           IF needs_decode
           THEN @ \o DecodeEntries(ti, "32bit", field.field_ifdef) ELSE @,
       !.decode_64bit =
           IF needs_decode
           THEN @ \o DecodeEntries(ti, "64bit", field.field_ifdef) ELSE @,
       !.dump =
           <<WrapWithIfdef([item |-> "dump", field |-> field.name],
                field.field_ifdef)>> \o @]

\* build_message_type, the body of the field loop: the lists with what the
\* field, whose type-info is ti, adds to each.
FieldContent(field, ti, common_field_names, needs_decode, needs_encode, acc) ==
    [acc EXCEPT
       !.public_content =
           IF field.name \in common_field_names THEN @
           ELSE @ \o <<WrapWithIfdef(
                    [item |-> "member", field |-> field.name, cls |-> ti.cls,
                     needs_decode |-> ti.needs_decode,
                     needs_encode |-> ti.needs_encode],
                    field.field_ifdef)>>,
       !.encode =
           IF needs_encode
           THEN @ \o <<WrapWithIfdef(EncodeContent(ti), field.field_ifdef)>>
           ELSE @,
       !.size_calc =
           IF needs_encode
           THEN @ \o <<WrapWithIfdef(
                    GetSizeCalculation(ti, "this->" \o field.name, FALSE),
                    field.field_ifdef)>>
           ELSE @,
       !.decode_varint =
           IF needs_decode
           THEN @ \o DecodeEntries(ti, "varint", field.field_ifdef) ELSE @,
       !.decode_length =
           IF needs_decode
           THEN @ \o DecodeEntries(ti, "length", field.field_ifdef) ELSE @,
       !.decode_32bit =
           IF needs_decode
           THEN @ \o DecodeEntries(ti, "32bit", field.field_ifdef) ELSE @,
       !.decode_64bit =
           IF needs_decode
           THEN @ \o DecodeEntries(ti, "64bit", field.field_ifdef) ELSE @,
       !.dump =
           @ \o <<WrapWithIfdef([item |-> "dump", field |-> field.name],
                field.field_ifdef)>>]

\* build_message_type, one turn of the field loop for a field whose type-info
\* (or the exception its construction raises) is ti.
RECURSIVE BuildFields(_, _, _, _, _, _)
BuildFieldsStep(desc, i, common_field_names, needs_decode, needs_encode, acc, field, ti) ==
    IF field.deprecated
    THEN BuildFields(desc, i + 1, common_field_names, needs_decode, needs_encode, acc)
    ELSE IF FixedArrayValidationRaises(field, needs_decode)
    THEN Raise("ValueError: uses fixed_array_size", "build_message_type")
    ELSE IF IsError(ti) THEN ti
    ELSE BuildFields(desc, i + 1, common_field_names, needs_decode, needs_encode,
            FieldContent(field, ti, common_field_names, needs_decode, needs_encode, acc))

\* build_message_type, the field loop from field i on: acc holds the lists
\* collected so far; an exception leaves the loop.
BuildFields(desc, i, common_field_names, needs_decode, needs_encode, acc) ==
    IF i > Len(desc.field) THEN acc
    ELSE BuildFieldsStep(desc, i, common_field_names, needs_decode, needs_encode, acc,
            desc.field[i], CreateFieldTypeInfo(desc.field[i], needs_decode, needs_encode))

\* The mutant: no field is taken as hoisted into the base class.
CommonFieldNamesEmpty(desc, base_class_fields) == {}

\* The names of the fields hoisted into the base class of the message.
CommonFieldNames(desc, base_class_fields) ==
    IF desc.base_class # None /\ desc.base_class \in DOMAIN base_class_fields
    THEN {base_class_fields[desc.base_class][k].name :
            k \in 1..Len(base_class_fields[desc.base_class])}
    ELSE {}

\* build_message_type, the class assembled from the lists the field loop
\* collected: the methods with an empty body are left out.
MessageClass(desc, needs_decode, needs_encode, lists) ==
    [name |-> desc.name,
     base |-> IF desc.base_class # None THEN desc.base_class
              ELSE IF needs_decode THEN "ProtoDecodableMessage"
              ELSE "ProtoMessage",
     public_content |-> lists.public_content,
     methods |->
         (IF lists.decode_varint # <<>> THEN {"decode_varint"} ELSE {})
         \cup (IF lists.decode_length # <<>> THEN {"decode_length"} ELSE {})
         \cup (IF lists.decode_32bit # <<>> THEN {"decode_32bit"} ELSE {})
         \cup (IF lists.decode_64bit # <<>> THEN {"decode_64bit"} ELSE {})
         \cup (IF needs_encode /\ lists.encode # <<>> THEN {"encode"} ELSE {})
         \cup (IF needs_encode /\ lists.size_calc # <<>>
               THEN {"calculate_size"} ELSE {})
         \cup {"dump_to"},
     encode |-> lists.encode,
     size_calc |-> lists.size_calc,
     decode_varint |-> lists.decode_varint,
     decode_length |-> lists.decode_length,
     decode_32bit |-> lists.decode_32bit,
     decode_64bit |-> lists.decode_64bit,
     dump |-> lists.dump]

\* The lists of a message before its first field.
EmptyLists(head) ==
    [public_content |-> head.public_content, encode |-> <<>>,
     size_calc |-> <<>>, decode_varint |-> <<>>, decode_length |-> <<>>,
     decode_32bit |-> <<>>, decode_64bit |-> <<>>, dump |-> <<>>]

\* build_message_type after the lines of a service message (head) and the
\* field loop (lists): the exception either raised, or the class.
MessageClassOrError(desc, needs_decode, needs_encode, head, lists) ==
    IF IsError(head) THEN head
    ELSE IF IsError(lists) THEN lists
    ELSE MessageClass(desc, needs_decode, needs_encode, lists)

\* build_message_type for a message of the given direction.
BuildMessageTypeOfSource(desc, base_class_fields, needs_decode, needs_encode, head) ==
    MessageClassOrError(desc, needs_decode, needs_encode, head,
        IF IsError(head) THEN head
        ELSE BuildFields(desc, 1, CommonFieldNames(desc, base_class_fields),
                         needs_decode, needs_encode, EmptyLists(head)))

\* build_message_type: the class of one message (its members and the bodies
\* of its methods), or the exception raised.
BuildMessageType(desc, base_class_fields, message_source_map) ==
    BuildMessageTypeOfSource(desc, base_class_fields,
        NeedsDecode(message_source_map[desc.name]),
        NeedsEncode(message_source_map[desc.name]),
        ServiceMessageContent(desc))

\* The messages build_message_type is tried on: up to MaxBuildFields fields,
\* field k named FieldNames[k] with number k, each a plain, repeated or fixed
\* array field of a supported, an unsupported or the bytes type.
MaxBuildFields == 2
LargeArraySize == 64
FieldNames == <<"f1", "f2", "f3", "f4", "f5">>
BuildFieldTypes == {TYPE_INT32, TYPE_BYTES, TYPE_SINT64}
BuildArraySizes == {NoInt, 2, LargeArraySize}
BuildIds == {NoInt, 0, UINT8_MAX, UINT8_MAX + 1}

\* The shapes of a field: every type, label and array size for a field in
\* use, and two deprecated fields that would raise were they not skipped.
BuildFieldShapes ==
    [type : BuildFieldTypes, label : {LABEL_OPTIONAL, LABEL_REPEATED},
     fixed_array_size : BuildArraySizes, deprecated : {FALSE}]
    \cup {[type |-> TYPE_BYTES, label |-> LABEL_OPTIONAL, fixed_array_size |-> 2,
           deprecated |-> TRUE],
          [type |-> TYPE_SINT64, label |-> LABEL_REPEATED, fixed_array_size |-> 2,
           deprecated |-> TRUE]}

BuildFieldSeqs ==
    UNION {
        {[k \in 1..n |->
            MkField(FieldNames[k], k, shapes[k].type, shapes[k].label, "",
                    shapes[k].deprecated, None, shapes[k].fixed_array_size)] :
         shapes \in [1..n -> BuildFieldShapes]}
        : n \in 0..MaxBuildFields}

InitBuild ==
    /\ build_in \in
        {[desc |-> MkMessage("Msg", FALSE, None, NoInt, id, None, fields), source |-> source] :
            id \in BuildIds, fields \in BuildFieldSeqs,
            source \in {SOURCE_BOTH, SOURCE_SERVER, SOURCE_CLIENT}}
    /\ build_out = Nil
    /\ IdleTag /\ IdleTi /\ IdleCodec /\ IdleUsage /\ IdleRest

NoBaseClassFields == [b \in {} |-> <<>>]

CallBuildMessageType ==
    /\ build_out = Nil
    /\ build_out' = BuildMessageType(build_in.desc, NoBaseClassFields,
                        [n \in {build_in.desc.name} |-> build_in.source])
    /\ UNCHANGED <<build_in, tagVars, tiVars, codecVars, usageVars, restVars>>

NextBuild == CallBuildMessageType
SpecBuild == InitBuild /\ [][NextBuild]_vars

\* The method bodies of a generated class.
MethodLists ==
    {"encode", "size_calc", "decode_varint", "decode_length", "decode_32bit",
     "decode_64bit", "dump"}

\* build_message_type on the message with field k alone.
BuildSingleField(desc, k, source) ==
    BuildMessageType([desc EXCEPT !.field = <<desc.field[k]>>], NoBaseClassFields,
                     [n \in {desc.name} |-> source])

\* The statements of a method body that the fields from k on give, each
\* field taken alone, one field after the other in declaration order.
RECURSIVE StatementsInOrder(_, _, _, _)
StatementsInOrder(desc, source, list, k) ==
    IF k > Len(desc.field) THEN <<>>
    ELSE (IF desc.field[k].deprecated THEN <<>>
          ELSE BuildSingleField(desc, k, source)[list])
         \o StatementsInOrder(desc, source, list, k + 1)

\* C13: encode and calculate_size are generated only for a message whose
\* direction is BOTH or SERVER, the four decode methods only for a message
\* whose direction is BOTH or CLIENT, dump_to for every direction, and the
\* statements of every method are those of the fields in declaration order.
C13_MethodsFollowDirectionAndOrder ==
    (build_out # Nil /\ ~IsError(build_out)) =>
        /\ build_out.methods \cap {"encode", "calculate_size"} # {} =>
                build_in.source \in {SOURCE_BOTH, SOURCE_SERVER}
        /\ build_in.source \notin {SOURCE_BOTH, SOURCE_SERVER} =>
                build_out.encode = <<>> /\ build_out.size_calc = <<>>
        /\ build_out.methods \cap
                {"decode_varint", "decode_length", "decode_32bit", "decode_64bit"} # {} =>
                build_in.source \in {SOURCE_BOTH, SOURCE_CLIENT}
        /\ build_in.source \notin {SOURCE_BOTH, SOURCE_CLIENT} =>
                /\ build_out.decode_varint = <<>> /\ build_out.decode_length = <<>>
                /\ build_out.decode_32bit = <<>> /\ build_out.decode_64bit = <<>>
        /\ "dump_to" \in build_out.methods
        /\ \A list \in MethodLists :
                build_out[list] = StatementsInOrder(build_in.desc, build_in.source, list, 1)

\* A class was generated for an encode-only message with two fields in use:
\* it has encode, calculate_size and dump_to with two statements each and no
\* decode method.
C13_Witness ==
    /\ build_out # Nil
    /\ ~IsError(build_out)
    /\ build_in.source = SOURCE_SERVER
    /\ Len(build_in.desc.field) = 2
    /\ \A k \in 1..2 : ~build_in.desc.field[k].deprecated
    /\ build_out.methods = {"encode", "calculate_size", "dump_to"}
    /\ Len(build_out.encode) = 2
    /\ Len(build_out.dump) = 2

\* The fields of a message that are not deprecated and declare
\* fixed_array_size as a repeated field or as a singular bytes field.
FixedArrayFields(desc) ==
    {k \in 1..Len(desc.field) :
        /\ ~desc.field[k].deprecated
        /\ desc.field[k].fixed_array_size # NoInt
        /\ desc.field[k].label = LABEL_REPEATED \/ desc.field[k].type = TYPE_BYTES}

\* The decode cases of a generated class that copy into a fixed buffer.
TruncatingDecodes(out) ==
    {k \in 1..Len(out.decode_length) :
        out.decode_length[k].content.stmt = "memcpy_truncated"}

\* C3: a message whose direction includes decode and that has a field,
\* not deprecated, declaring fixed_array_size (repeated of any type, or
\* singular bytes) makes generation raise; no decode that truncates into a
\* fixed buffer is generated.
C3_FixedArrayOnDecodableRaises ==
    /\ (build_out # Nil /\ NeedsDecode(build_in.source)
            /\ FixedArrayFields(build_in.desc) # {}) =>
                IsError(build_out)
    /\ (build_out # Nil /\ ~IsError(build_out)) => TruncatingDecodes(build_out) = {}

\* C3, what the code does: a repeated fixed array on a decodable message
\* always raises.
C3_RepeatedFixedArrayRaises ==
    (build_out # Nil /\ NeedsDecode(build_in.source)
        /\ \E k \in FixedArrayFields(build_in.desc) :
                build_in.desc.field[k].label = LABEL_REPEATED) =>
            IsError(build_out)

\* C4: a message whose id is above 255 makes build_message_type raise the
\* error that the id exceeds the 8-bit maximum and yields no MESSAGE_TYPE;
\* for an id in 0..255 the MESSAGE_TYPE emitted is the declared id.
C4_MessageIdFitsUint8 ==
    (build_out # Nil /\ build_in.desc.id # NoInt) =>
        /\ build_in.desc.id > 255 =>
            /\ IsError(build_out)
            /\ build_out.error = "ValueError: Message ID exceeds uint8_t maximum (255)"
        /\ (build_in.desc.id \in 0..255 /\ ~IsError(build_out)) =>
            /\ build_out.public_content[1] =
                    [item |-> "MESSAGE_TYPE", value |-> build_in.desc.id]
            /\ \A k \in 2..Len(build_out.public_content) :
                    "item" \in DOMAIN build_out.public_content[k]
                        => build_out.public_content[k].item # "MESSAGE_TYPE"

\* A message with id 256 was given and build_message_type raised.
C4_Witness ==
    /\ build_out # Nil
    /\ build_in.desc.id = UINT8_MAX + 1
    /\ IsError(build_out)

(***************************************************************************)
(* Cross-schema analysis: build_type_usage_map.  The file descriptor is a  *)
(* record [message_type, enum_type] of sequences; an enum is a record      *)
(* [name, deprecated].  A dict is a function from its keys.                *)
(***************************************************************************)
MAX_ITERATIONS == 10

Messages(fd) == {fd.message_type[i] : i \in 1..Len(fd.message_type)}

\* A dict with one more key, or a new value under a key it has.
DictSet(d, key, value) ==
    [k \in DOMAIN d \cup {key} |-> IF k = key THEN value ELSE d[k]]

EmptyDict == [k \in {} |-> None]

\* message_to_ifdef: the ifdef option of every message.
MessageToIfdef(fd) ==
    [name \in {m.name : m \in Messages(fd)} |->
        (CHOOSE m \in Messages(fd) : m.name = name).ifdef]

\* The mutant: the usage loop counts the deprecated fields too.
UsageFieldsWithDeprecated(fd, type) ==
    UNION {{[user |-> m.name, field |-> m.field[k]] :
                k \in {j \in 1..Len(m.field) :
                        /\ m.field[j].type_name # ""
                        /\ m.field[j].type = type}}
           : m \in {x \in Messages(fd) : ~x.deprecated}}

\* The usage loop: the fields, not deprecated and of messages not deprecated,
\* whose type is a message or an enum, as (user, field) pairs.
UsageFields(fd, type) ==
    UNION {{[user |-> m.name, field |-> m.field[k]] :
                k \in {j \in 1..Len(m.field) :
                        /\ ~m.field[j].deprecated
                        /\ m.field[j].type_name # ""
                        /\ m.field[j].type = type}}
           : m \in {x \in Messages(fd) : ~x.deprecated}}

\* enum_usage and message_usage: type name -> the names of the messages using it.
UsageOf(fd, type) ==
    [t \in {u.field.type_name : u \in UsageFields(fd, type)} |->
        {u.user : u \in {v \in UsageFields(fd, type) : v.field.type_name = t}}]

EnumUsage(fd) == UsageOf(fd, TYPE_ENUM)
MessageUsage(fd) == UsageOf(fd, TYPE_MESSAGE)

\* message_field_ifdefs: message name -> the field_ifdef values (None
\* included) of the fields of that type.
MessageFieldIfdefs(fd, message_usage) ==
    [t \in DOMAIN message_usage |->
        {u.field.field_ifdef :
            u \in {v \in UsageFields(fd, TYPE_MESSAGE) : v.field.type_name = t}}]

\* The one element of a set that has exactly one, else None.
OnlyElementOrNone(set) ==
    IF Cardinality(set) = 1 THEN CHOOSE x \in set : TRUE ELSE None

\* get_unique_ifdef: the guard shared by the messages named that have one.
GetUniqueIfdef(message_to_ifdef, message_names) ==
    OnlyElementOrNone(
        {message_to_ifdef[name] :
            name \in {n \in message_names :
                        n \in DOMAIN message_to_ifdef /\ message_to_ifdef[n] # None}})

\* Build enum ifdef map
EnumIfdefMap(fd, message_to_ifdef, enum_usage) ==
    [name \in {fd.enum_type[i].name : i \in 1..Len(fd.enum_type)} |->
        IF name \in DOMAIN enum_usage
        THEN GetUniqueIfdef(message_to_ifdef, enum_usage[name])
        ELSE None]

\* Build message ifdef map: the guard a message with no guard of its own and
\* with users gets in the first pass, parent_ifdef being the unique guard of
\* its users.
InheritedIfdef(name, parent_ifdef, message_field_ifdefs) ==
    IF parent_ifdef # None THEN parent_ifdef
    ELSE IF name \in DOMAIN message_field_ifdefs
    THEN OnlyElementOrNone(message_field_ifdefs[name] \ {None})
    ELSE None

\* Build message ifdef map: the guard of one message in the first pass.
FirstPassIfdef(name, message_to_ifdef, message_usage, message_field_ifdefs) ==
    IF message_to_ifdef[name] # None THEN message_to_ifdef[name]
    ELSE IF name \in DOMAIN message_usage
    THEN InheritedIfdef(name, GetUniqueIfdef(message_to_ifdef, message_usage[name]),
                        message_field_ifdefs)
    ELSE None

FirstPassIfdefMap(fd, message_to_ifdef, message_usage, message_field_ifdefs) ==
    [name \in {m.name : m \in Messages(fd)} |->
        FirstPassIfdef(name, message_to_ifdef, message_usage, message_field_ifdefs)]

\* The guards, of the users of a message, that are set.
ParentIfdefs(name, message_usage, message_ifdef_map) ==
    {message_ifdef_map[parent] :
        parent \in {q \in message_usage[name] :
            q \in DOMAIN message_ifdef_map /\ message_ifdef_map[q] # None}}

\* The for loop of one propagation pass, from message i on: a message without
\* a guard whose users' guards (those that have one) are all the same
\* inherits it; the map is updated in place.
RECURSIVE PropagatePassFrom(_, _, _, _, _)
PropagatePassFrom(fd, message_usage, i, message_ifdef_map, changed) ==
    IF i > Len(fd.message_type)
    THEN [message_ifdef_map |-> message_ifdef_map, changed |-> changed]
    ELSE IF \/ message_ifdef_map[fd.message_type[i].name] # None
            \/ fd.message_type[i].name \notin DOMAIN message_usage
    THEN PropagatePassFrom(fd, message_usage, i + 1, message_ifdef_map, changed)
    ELSE IF /\ Cardinality(ParentIfdefs(fd.message_type[i].name, message_usage,
                                        message_ifdef_map)) = 1
            /\ None \notin ParentIfdefs(fd.message_type[i].name, message_usage,
                                        message_ifdef_map)
    THEN PropagatePassFrom(fd, message_usage, i + 1,
            DictSet(message_ifdef_map, fd.message_type[i].name,
                    CHOOSE g \in ParentIfdefs(fd.message_type[i].name, message_usage,
                                              message_ifdef_map) : TRUE),
            TRUE)
    ELSE PropagatePassFrom(fd, message_usage, i + 1, message_ifdef_map, changed)

\* The while loop: passes until one changes nothing or ten were made.
RECURSIVE PropagateIfdefs(_, _, _, _, _)
PropagateIfdefsAfter(fd, message_usage, pass, iterations) ==
    PropagateIfdefs(fd, message_usage, pass.message_ifdef_map, pass.changed, iterations)

PropagateIfdefs(fd, message_usage, message_ifdef_map, changed, iterations) ==
    IF changed /\ iterations < MAX_ITERATIONS
    THEN PropagateIfdefsAfter(fd, message_usage,
            PropagatePassFrom(fd, message_usage, 1, message_ifdef_map, FALSE),
            iterations + 1)
    ELSE message_ifdef_map

MessageIfdefMap(fd, message_to_ifdef, message_usage, message_field_ifdefs) ==
    PropagateIfdefs(fd, message_usage,
        FirstPassIfdefMap(fd, message_to_ifdef, message_usage, message_field_ifdefs),
        TRUE, 0)

\* Build message source map, first pass, from message i on: a message that is
\* not deprecated gets its explicit source, or SOURCE_BOTH when it has an id
\* and no source; the latter is added to used_messages.
RECURSIVE ExplicitSourcesFrom(_, _, _, _)
ExplicitSourcesFrom(fd, i, message_source_map, used_messages) ==
    IF i > Len(fd.message_type)
    THEN [message_source_map |-> message_source_map, used_messages |-> used_messages]
    ELSE LET msg == fd.message_type[i]
         IN  IF msg.deprecated
             THEN ExplicitSourcesFrom(fd, i + 1, message_source_map, used_messages)
             ELSE IF msg.source # NoInt
             THEN ExplicitSourcesFrom(fd, i + 1,
                    DictSet(message_source_map, msg.name, msg.source), used_messages)
             ELSE IF msg.id # NoInt
             THEN ExplicitSourcesFrom(fd, i + 1,
                    DictSet(message_source_map, msg.name, SOURCE_BOTH),
                    used_messages \cup {msg.name})
             ELSE ExplicitSourcesFrom(fd, i + 1, message_source_map, used_messages)

\* The mutant: a message used in more than one direction is made encode-only.
CombineParentSourcesMixToServer(parent_sources) ==
    IF parent_sources = {} THEN SOURCE_SERVER
    ELSE IF Cardinality(parent_sources) > 1 THEN SOURCE_SERVER
    ELSE CHOOSE x \in parent_sources : TRUE

\* Combine parent sources: encode-only when no user has a source yet, both
\* directions when the users have more than one, else the users' direction.
CombineParentSources(parent_sources) ==
    IF parent_sources = {} THEN SOURCE_SERVER
    ELSE IF Cardinality(parent_sources) > 1 THEN SOURCE_BOTH
    ELSE CHOOSE x \in parent_sources : TRUE

\* The sources, of the users of a message, that are set.
ParentSources(name, message_usage, message_source_map) ==
    {message_source_map[parent] :
        parent \in {q \in message_usage[name] : q \in DOMAIN message_source_map}}

\* Build message source map, second pass, from message i on: a message
\* without a source takes it from the users that have one at that moment; the
\* map is updated in place.
RECURSIVE InferredSourcesFrom(_, _, _, _)
InferredSourcesFrom(fd, message_usage, i, message_source_map) ==
    IF i > Len(fd.message_type) THEN message_source_map
    ELSE IF fd.message_type[i].name \in DOMAIN message_source_map
    THEN InferredSourcesFrom(fd, message_usage, i + 1, message_source_map)
    ELSE IF fd.message_type[i].name \in DOMAIN message_usage
    THEN InferredSourcesFrom(fd, message_usage, i + 1,
            DictSet(message_source_map, fd.message_type[i].name,
                    CombineParentSources(
                        ParentSources(fd.message_type[i].name, message_usage,
                                      message_source_map))))
    ELSE InferredSourcesFrom(fd, message_usage, i + 1,
            DictSet(message_source_map, fd.message_type[i].name, SOURCE_SERVER))

\* build_type_usage_map after the usage loop: the four maps returned, explicit
\* being the source map and the used messages after the first source pass.
UsageMaps(fd, message_to_ifdef, enum_usage, message_usage, message_field_ifdefs, explicit) ==
    [enum_ifdef_map |-> EnumIfdefMap(fd, message_to_ifdef, enum_usage),
     message_ifdef_map |->
        MessageIfdefMap(fd, message_to_ifdef, message_usage, message_field_ifdefs),
     message_source_map |->
        InferredSourcesFrom(fd, message_usage, 1, explicit.message_source_map),
     used_messages |-> explicit.used_messages]

\* build_type_usage_map after message_usage is known.
UsageMapsOf(fd, message_usage) ==
    UsageMaps(fd, MessageToIfdef(fd), EnumUsage(fd), message_usage,
              MessageFieldIfdefs(fd, message_usage),
              ExplicitSourcesFrom(fd, 1, EmptyDict, DOMAIN message_usage))

\* build_type_usage_map
BuildTypeUsageMap(fd) == UsageMapsOf(fd, MessageUsage(fd))

(***************************************************************************)
(* Base class grouping and the message emission loop of main.              *)
(***************************************************************************)
\* collect_messages_by_base_class: base class name -> its messages, in order.
CollectMessagesByBaseClass(messages) ==
    [b \in {messages[i].base_class : i \in 1..Len(messages)} \ {None} |->
        SelectSeq(messages, LAMBDA m : m.base_class = b)]

\* A sequence of fields sorted by field number.
RECURSIVE SortByNumber(_)
SortByNumber(fields) ==
    IF fields = {} THEN <<>>
    ELSE LET first == CHOOSE f \in fields : \A g \in fields : f.number <= g.number
         IN  <<first>> \o SortByNumber(fields \ {first})

\* find_common_fields: the fields of the first message, not deprecated, that
\* every other message has under the same name, type and label.
FindCommonFields(messages) ==
    IF messages = <<>> THEN <<>>
    ELSE SortByNumber(
            {f \in {messages[1].field[k] : k \in 1..Len(messages[1].field)} :
                /\ ~f.deprecated
                /\ \A i \in 2..Len(messages) :
                    \E j \in 1..Len(messages[i].field) :
                        /\ ~messages[i].field[j].deprecated
                        /\ messages[i].field[j].name = f.name
                        /\ messages[i].field[j].type = f.type
                        /\ messages[i].field[j].label = f.label})

\* main: base_class_fields, the groups whose common field list is not empty.
BaseClassFields(base_class_groups) ==
    [b \in {c \in DOMAIN base_class_groups : FindCommonFields(base_class_groups[c]) # <<>>} |->
        FindCommonFields(base_class_groups[b])]

\* The mutant: only the messages another message uses are emitted.
SkippedByMainUnlessUsed(m, used_messages) ==
    m.deprecated \/ m.name \notin used_messages

\* main, the head of the emission loop: TRUE for a message that is skipped.
SkippedByMain(m, used_messages) ==
    \/ m.deprecated
    \/ (m.name \notin used_messages /\ m.id = NoInt)

\* The mutant: a changed guard opens its #ifdef without closing the one before.
IfdefChangeWithoutEndif(current_ifdef, msg_ifdef) ==
    IF msg_ifdef = current_ifdef THEN <<>>
    ELSE IF msg_ifdef # None THEN <<[line |-> "#ifdef", ifdef |-> msg_ifdef]>> ELSE <<>>

\* The directives written when the guard changes from current_ifdef to msg_ifdef.
IfdefChange(current_ifdef, msg_ifdef) ==
    IF msg_ifdef = current_ifdef THEN <<>>
    ELSE (IF current_ifdef # None THEN <<[line |-> "#endif"]>> ELSE <<>>)
         \o (IF msg_ifdef # None THEN <<[line |-> "#ifdef", ifdef |-> msg_ifdef]>> ELSE <<>>)

\* get_common_field_ifdef: the field_ifdef of the field of that name when all
\* the messages that have it agree, else None.
GetCommonFieldIfdef(field_name, messages) ==
    OnlyElementOrNone(
        {messages[i].field[
            CHOOSE j \in 1..Len(messages[i].field) :
                /\ messages[i].field[j].name = field_name
                /\ \A h \in 1..(j - 1) : messages[i].field[h].name # field_name
         ].field_ifdef :
            i \in {x \in 1..Len(messages) :
                    \E j \in 1..Len(messages[x].field) :
                        messages[x].field[j].name = field_name}})

\* build_base_class, the loop over the common fields from field i on.
RECURSIVE BaseClassMembersFrom(_, _, _, _, _, _)
BaseClassMembersFrom(common_fields, messages, i, needs_decode, needs_encode, acc) ==
    IF i > Len(common_fields) THEN [public_content |-> acc]
    ELSE LET field == common_fields[i]
             ti == CreateFieldTypeInfo(field, needs_decode, needs_encode)
         IN  IF IsError(ti) THEN ti
             ELSE BaseClassMembersFrom(common_fields, messages, i + 1,
                    needs_decode, needs_encode,
                    acc \o <<WrapWithIfdef(
                                [item |-> "member", field |-> field.name, cls |-> ti.cls,
                                 needs_decode |-> ti.needs_decode,
                                 needs_encode |-> ti.needs_encode],
                                GetCommonFieldIfdef(field.name, messages))>>)

\* build_base_class: the base class declaring the common fields.
BuildBaseClass(base_class_name, common_fields, messages, message_source_map) ==
    LET needs_decode == \E i \in 1..Len(messages) :
                            NeedsDecode(message_source_map[messages[i].name])
        needs_encode == \E i \in 1..Len(messages) :
                            NeedsEncode(message_source_map[messages[i].name])
        members == BaseClassMembersFrom(common_fields, messages, 1,
                                        needs_decode, needs_encode, <<>>)
    IN  IF IsError(members) THEN members
        ELSE [name |-> base_class_name,
              base |-> IF needs_decode THEN "ProtoDecodableMessage" ELSE "ProtoMessage",
              public_content |-> <<[item |-> "destructor"]>> \o members.public_content]

\* The base classes built, or the exception one of them raised.
BaseClassesOrError(built) ==
    IF \E b \in DOMAIN built : IsError(built[b])
    THEN built[CHOOSE b \in DOMAIN built : IsError(built[b])]
    ELSE [classes |-> {built[b] : b \in DOMAIN built}]

\* generate_base_classes: the base classes of the groups with common fields,
\* or the exception one of them raised.
GenerateBaseClasses(base_class_groups, base_class_fields, message_source_map) ==
    BaseClassesOrError(
        [b \in DOMAIN base_class_fields |->
            BuildBaseClass(b, base_class_fields[b], base_class_groups[b],
                           message_source_map)])

\* main, one turn of the emission loop for message m, whose guard is
\* msg_ifdef and whose class (or the exception raised) is built.
RECURSIVE EmitMessagesFrom(_, _, _, _, _, _)
EmitMessage(fd, maps, base_class_fields, i, current_ifdef, content, msg_ifdef, built) ==
    IF IsError(built) THEN built
    ELSE EmitMessagesFrom(fd, maps, base_class_fields, i + 1, msg_ifdef,
            content \o IfdefChange(current_ifdef, msg_ifdef)
                    \o <<[line |-> "class", class |-> built]>>)

\* main, the emission loop from message i on: content is the text of the
\* header so far, as a sequence of directives and classes; an exception of
\* build_message_type ends main.
EmitMessagesFrom(fd, maps, base_class_fields, i, current_ifdef, content) ==
    IF i > Len(fd.message_type)
    THEN [content |-> content \o
                      (IF current_ifdef # None THEN <<[line |-> "#endif"]>> ELSE <<>>)]
    ELSE IF SkippedByMain(fd.message_type[i], maps.used_messages)
    THEN EmitMessagesFrom(fd, maps, base_class_fields, i + 1, current_ifdef, content)
    ELSE EmitMessage(fd, maps, base_class_fields, i, current_ifdef, content,
            IF fd.message_type[i].name \in DOMAIN maps.message_ifdef_map
            THEN maps.message_ifdef_map[fd.message_type[i].name] ELSE None,
            BuildMessageType(fd.message_type[i], base_class_fields,
                             maps.message_source_map))

\* main after build_type_usage_map returned maps and generate_base_classes
\* base: the exception raised, or what is written to the header.
MainOutput(base, emitted) ==
    IF IsError(base) THEN base
    ELSE IF IsError(emitted) THEN emitted
    ELSE [base_classes |-> base.classes, content |-> emitted.content]

\* main once base_class_groups and base_class_fields are known.
MainWithBaseClasses(fd, maps, base_class_groups, base_class_fields) ==
    MainOutput(GenerateBaseClasses(base_class_groups, base_class_fields,
                                   maps.message_source_map),
               EmitMessagesFrom(fd, maps, base_class_fields, 1, None, <<>>))

\* main, from build_type_usage_map to the end of the emission loop: the base
\* classes and the message classes written to the header, or the exception.
MainWith(fd, maps) ==
    MainWithBaseClasses(fd, maps, CollectMessagesByBaseClass(fd.message_type),
        BaseClassFields(CollectMessagesByBaseClass(fd.message_type)))

Main(fd) == MainWith(fd, BuildTypeUsageMap(fd))

(***************************************************************************)
(* Schemas main is run on.  The messages are declared in the order of      *)
(* MessageNames; a reference is a field of message `user` whose type is    *)
(* the message or enum `target`; the references of a message become its    *)
(* fields, field k named FieldNames[k] with number k.                      *)
(***************************************************************************)
MaxRefs == 2
MessageNames == <<"A", "B", "C">>
NameSet == {MessageNames[i] : i \in 1..Len(MessageNames)}
EnumName == "E"

\* The subsets of a set with at most n elements.
RECURSIVE SubsetsUpTo(_, _)
SubsetsUpTo(set, n) ==
    IF n = 0 THEN {{}}
    ELSE SubsetsUpTo(set, n - 1) \cup
         UNION {{sub \cup {x} : x \in set \ sub} : sub \in SubsetsUpTo(set, n - 1)}

\* The place of a type name among the targets: the enum, then the messages.
TargetIndex(target) ==
    IF target = EnumName THEN 0
    ELSE CHOOSE i \in 1..Len(MessageNames) : MessageNames[i] = target

\* A reference; its fields are declared by target, plain ones first, then
\* those with a field_ifdef, then the deprecated.
MkRef(user, target, type, deprecated, field_ifdef) ==
    [user |-> user, target |-> target, type |-> type, deprecated |-> deprecated,
     field_ifdef |-> field_ifdef,
     rank |-> 4 * TargetIndex(target) + (IF deprecated THEN 2 ELSE 0)
                + (IF field_ifdef # None THEN 1 ELSE 0)]

\* The references in the order their fields are declared.
RECURSIVE RefSeq(_)
RefSeq(refs) ==
    IF refs = {} THEN <<>>
    ELSE LET first == CHOOSE r \in refs : \A q \in refs : r.rank <= q.rank
         IN  <<first>> \o RefSeq(refs \ {first})

\* The fields of message `user` under the references chosen.
FieldsOf(user, refs) ==
    LET mine == RefSeq({r \in refs : r.user = user})
    IN  [k \in 1..Len(mine) |->
            MkField(FieldNames[k], k, mine[k].type, LABEL_OPTIONAL, mine[k].target,
                    mine[k].deprecated, mine[k].field_ifdef, NoInt)]

(***************************************************************************)
(* The service code of main: the on_<name> handlers and the read_message   *)
(* switch of APIServerConnectionBase, and the dispatch wrappers of          *)
(* APIServerConnection.  A method is a record                              *)
(*   [name, input_type, output_type, needs_setup_connection,               *)
(*    needs_authentication]                                                *)
(* with the type names written without their leading dot and the two       *)
(* options NoInt when not set, 0 for false and 1 for true.  The log option  *)
(* of a message is never set, so the logging lines are always generated.    *)
(***************************************************************************)
\* camel_to_snake on the message names of the schemas.
AllNames == <<"A", "B", "C", "D", "F", "G", "H", "I", "J", "K", "L", "M", "N", "O", "P">>
SnakeNames == <<"a", "b", "c", "d", "f", "g", "h", "i", "j", "k", "l", "m", "n", "o", "p">>
CamelToSnake(name) == SnakeNames[CHOOSE i \in 1..Len(AllNames) : AllNames[i] = name]

\* get_opt on a boolean option with its default.
GetOpt(value, default) == IF value = NoInt THEN default ELSE value = 1

\* build_service_message_type: message_source_map.get(mt.name, SOURCE_BOTH)
ServiceSource(mt, message_source_map) ==
    IF mt.name \in DOMAIN message_source_map THEN message_source_map[mt.name]
    ELSE SOURCE_BOTH

\* build_service_message_type: the body of the case of a message.
ReceiveCase(mt) ==
    <<[stmt |-> "declare", type |-> mt.name],
      [stmt |-> "decode"],
      [stmt |-> "log", func |-> CamelToSnake(mt.name)],
      [stmt |-> "call", func |-> CamelToSnake(mt.name)],
      [stmt |-> "break"]>>

\* build_service_message_type for a message that has an id and is not
\* deprecated: acc holds the handler declarations written so far and the
\* globals RECEIVE_CASES and ifdefs.
ServiceMessage(mt, receives, acc) ==
    [hpp |-> IF receives
             THEN Append(acc.hpp, [func |-> CamelToSnake(mt.name), type |-> mt.name,
                                   ifdef |-> mt.ifdef])
             ELSE acc.hpp,
     RECEIVE_CASES |-> IF receives
                       THEN DictSet(acc.RECEIVE_CASES, mt.id,
                                    [case |-> ReceiveCase(mt), ifdef |-> mt.ifdef])
                       ELSE acc.RECEIVE_CASES,
     ifdefs |-> IF mt.ifdef # None THEN DictSet(acc.ifdefs, mt.name, mt.ifdef)
                ELSE acc.ifdefs]

\* build_service_message_type
BuildServiceMessageType(mt, message_source_map, acc) ==
    IF mt.deprecated \/ mt.id = NoInt THEN acc
    ELSE ServiceMessage(mt,
                        ServiceSource(mt, message_source_map) \in {SOURCE_BOTH, SOURCE_CLIENT},
                        acc)

\* main: the loop over file.message_type that builds the service messages.
RECURSIVE ServiceMessagesFrom(_, _, _, _)
ServiceMessagesFrom(message_type, message_source_map, i, acc) ==
    IF i > Len(message_type) THEN acc
    ELSE ServiceMessagesFrom(message_type, message_source_map, i + 1,
            BuildServiceMessageType(message_type[i], message_source_map, acc))

\* list(RECEIVE_CASES.items()) sorted: the cases by ascending id.
RECURSIVE SortedCases(_, _)
SortedCases(receive_cases, ids) ==
    IF ids = {} THEN <<>>
    ELSE LET least == CHOOSE i \in ids : \A j \in ids : i <= j
         IN  <<[id |-> least, case |-> receive_cases[least].case,
                ifdef |-> receive_cases[least].ifdef]>>
             \o SortedCases(receive_cases, ids \ {least})

\* main: the read_message switch, with its default arm.
ReadMessage(receive_cases) ==
    [cases |-> SortedCases(receive_cases, DOMAIN receive_cases),
     default |-> <<[stmt |-> "break"]>>]

\* The mutant: the connection setup check goes first.
CheckFuncSetupFirst(needs_auth, needs_conn) ==
    IF needs_auth \/ needs_conn
    THEN IF needs_conn THEN "check_connection_setup_" ELSE "check_authenticated_"
    ELSE None

\* main: the check a dispatch wrapper starts with, None when it has none.
CheckFunc(needs_auth, needs_conn) ==
    IF needs_auth \/ needs_conn
    THEN IF needs_auth THEN "check_authenticated_" ELSE "check_connection_setup_"
    ELSE None

\* main: message_ifdef_map.get(inp, ifdefs.get(inp, None))
MethodIfdef(inp, message_ifdef_map, ifdefs) ==
    IF inp \in DOMAIN message_ifdef_map THEN message_ifdef_map[inp]
    ELSE IF inp \in DOMAIN ifdefs THEN ifdefs[inp]
    ELSE None

\* main: the handler code of a wrapper: the call of the user's method and,
\* for a method that returns a message, the sending of it.
HandlerBody(m) ==
    IF m.output_type = "void" THEN <<[stmt |-> "call", func |-> m.name]>>
    ELSE <<[stmt |-> "call", func |-> m.name],
           [stmt |-> "send_message", type |-> m.output_type,
            on_failure |-> "on_fatal_error"]>>

\* main: the dispatch wrapper on_<input> of a method: its handler code, under
\* the check when it has one.
MethodWrapper(m, message_ifdef_map, ifdefs) ==
    [on_func |-> CamelToSnake(m.input_type),
     inp |-> m.input_type,
     check |-> CheckFunc(GetOpt(m.needs_authentication, TRUE),
                         GetOpt(m.needs_setup_connection, TRUE)),
     body |-> HandlerBody(m),
     ifdef |-> MethodIfdef(m.input_type, message_ifdef_map, ifdefs)]

\* main after the service messages: file.service[0] and serv.method[0] raise
\* IndexError when there is no service or no method.
ServiceOutputOf(fd, maps, acc) ==
    IF fd.service = <<>> \/ fd.service[1].method = <<>>
    THEN Raise("IndexError: list index out of range", "main")
    ELSE [hpp |-> acc.hpp,
          read_message |-> ReadMessage(acc.RECEIVE_CASES),
          methods |-> [k \in 1..Len(fd.service[1].method) |->
                          MethodWrapper(fd.service[1].method[k],
                                        maps.message_ifdef_map, acc.ifdefs)]]

\* main: the service header and implementation.
ServiceOutput(fd, maps) ==
    ServiceOutputOf(fd, maps,
        ServiceMessagesFrom(fd.message_type, maps.message_source_map, 1,
                            [hpp |-> <<>>, RECEIVE_CASES |-> EmptyDict, ifdefs |-> EmptyDict]))

\* The mutant: the message files are written whatever the emission loop did.
PbFilesWrittenAlways(out) == {"api_pb2.h", "api_pb2.cpp", "api_pb2_dump.cpp"}

\* main: the three message files, written once the emission loop is through.
PbFilesWritten(out) ==
    IF IsError(out) THEN {} ELSE {"api_pb2.h", "api_pb2.cpp", "api_pb2_dump.cpp"}

\* main: the two service files, written once the service code is complete.
ServiceFilesWritten(service) ==
    IF service = Nil \/ IsError(service) THEN {}
    ELSE {"api_pb2_service.h", "api_pb2_service.cpp"}

\* main after the emission loop: nothing more happens when it raised.
ServiceAfter(fd, maps, out) ==
    IF IsError(out) THEN Nil ELSE ServiceOutput(fd, maps)

\* A method of the service with the default options.
MkMethod(name, input_type, output_type, needs_setup_connection, needs_authentication) ==
    [name |-> name, input_type |-> input_type, output_type |-> output_type,
     needs_setup_connection |-> needs_setup_connection,
     needs_authentication |-> needs_authentication]

\* The service of the schemas below: one method that takes the first message.
DefaultService == <<[method |-> <<MkMethod("hello", MessageNames[1], "void", NoInt, NoInt)>>]>>

\* The file descriptor with the given message options and references.
MkFile(opts, refs) ==
    [message_type |->
        [i \in 1..Len(MessageNames) |->
            MkMessage(MessageNames[i], opts[i].deprecated, opts[i].ifdef, opts[i].source,
                      opts[i].id, None, FieldsOf(MessageNames[i], refs))],
     enum_type |-> <<[name |-> EnumName, deprecated |-> FALSE]>>,
     service |-> DefaultService]

\* References between two different messages: a plain field or a deprecated one.
SourceRefs ==
    {MkRef(p[1], p[2], TYPE_MESSAGE, d, None) :
        p \in {q \in NameSet \X NameSet : q[1] # q[2]}, d \in BOOLEAN}

\* Message i with or without a source option and with or without the id i.
SourceOpts ==
    {opts \in [1..Len(MessageNames) ->
                [deprecated : BOOLEAN, ifdef : {None},
                 source : {NoInt, SOURCE_BOTH, SOURCE_SERVER, SOURCE_CLIENT},
                 id : {NoInt} \cup (1..Len(MessageNames))]] :
        /\ \A i \in DOMAIN opts : opts[i].id \in {NoInt, i}
        /\ Cardinality({i \in DOMAIN opts : opts[i].deprecated}) <= 1}

InitSource ==
    /\ \E opts \in SourceOpts, refs \in SubsetsUpTo(SourceRefs, MaxRefs) :
            file_desc = MkFile(opts, refs)
    /\ usage = Nil
    /\ main_out = Nil
    /\ IdleTag /\ IdleTi /\ IdleCodec /\ IdleBuild /\ IdleRest

\* References between two different messages, plain, with a field_ifdef or
\* deprecated, and the uses of the enum.
IfdefRefs ==
    {MkRef(p[1], p[2], TYPE_MESSAGE, l[1], l[2]) :
        p \in {q \in NameSet \X NameSet : q[1] # q[2]},
        l \in {<<FALSE, None>>, <<FALSE, "USE_F">>, <<TRUE, None>>}}
    \cup {MkRef(u, EnumName, TYPE_ENUM, FALSE, None) : u \in NameSet}

\* Message i with or without a guard of its own; every message has the id i.
IfdefOpts ==
    {opts \in [1..Len(MessageNames) ->
                [deprecated : BOOLEAN, ifdef : {None, "USE_G", "USE_H"},
                 source : {NoInt}, id : 1..Len(MessageNames)]] :
        \A i \in DOMAIN opts : opts[i].id = i}

InitIfdef ==
    /\ \E opts \in IfdefOpts, refs \in SubsetsUpTo(IfdefRefs, MaxRefs) :
            file_desc = MkFile(opts, refs)
    /\ usage = Nil
    /\ main_out = Nil
    /\ IdleTag /\ IdleTi /\ IdleCodec /\ IdleBuild /\ IdleRest

\* main is run on the schema: usage is what build_type_usage_map returned to
\* it, main_out what it wrote.
CallMain ==
    /\ main_out = Nil
    /\ usage' = BuildTypeUsageMap(file_desc)
    /\ main_out' = MainWith(file_desc, usage')
    /\ service_out' = ServiceAfter(file_desc, usage', main_out')
    /\ files' = PbFilesWritten(main_out') \cup ServiceFilesWritten(service_out')
    /\ UNCHANGED <<file_desc, tagVars, tiVars, codecVars, buildVars,
                   commonVars, strippedVars, rpcVars, sizeVars, propVars>>

NextMain == CallMain
SpecSource == InitSource /\ [][NextMain]_vars
SpecIfdef == InitIfdef /\ [][NextMain]_vars

\* The messages of the schema main ran on, and the two maps it got.
Schema == Messages(file_desc)
SourceOf(name) == usage.message_source_map[name]
GuardOf(name) == usage.message_ifdef_map[name]

\* The messages, not deprecated, that have a field, not deprecated, whose
\* type is the message named.
UsersOf(name) ==
    {u.name : u \in {m \in Schema :
        /\ ~m.deprecated
        /\ \E k \in 1..Len(m.field) :
            /\ ~m.field[k].deprecated
            /\ m.field[k].type = TYPE_MESSAGE
            /\ m.field[k].type_name = name}}

\* The messages with neither a source option nor an id.
Embedded == {m \in Schema : m.source = NoInt /\ m.id = NoInt}

\* The direction a message declares: its source option, or both directions
\* when it has an id only.
DeclaredSource(m) == IF m.source # NoInt THEN m.source ELSE SOURCE_BOTH

\* The directions declared by the users of a message that declare one.
DeclaredUserSources(name) ==
    {DeclaredSource(u) :
        u \in {m \in Schema : m.name \in UsersOf(name)
                                /\ (m.source # NoInt \/ m.id # NoInt)}}

\* The classes main wrote to the header.
EmittedClasses ==
    {main_out.content[k].class :
        k \in {j \in 1..Len(main_out.content) : main_out.content[j].line = "class"}}

\* C6: a message with neither source option nor id, all of whose users end
\* up with one direction D, gets D, wherever the users are declared.
C6_SingleDirectionInherited ==
    usage # Nil =>
        \A m \in Embedded :
            UsersOf(m.name) # {} =>
                \A D \in {SOURCE_BOTH, SOURCE_SERVER, SOURCE_CLIENT} :
                    (\A u \in UsersOf(m.name) : SourceOf(u) = D) => SourceOf(m.name) = D

\* C7 as stated: a message with neither source option nor id whose users have
\* more than one direction is encode-only.
C7_MixIsEncodeOnly ==
    usage # Nil =>
        \A m \in Embedded :
            Cardinality({SourceOf(u) : u \in UsersOf(m.name)}) > 1 =>
                SourceOf(m.name) = SOURCE_SERVER

\* C7: a message with neither source option nor id whose users declare
\* (by a source option, or by an id alone, which stands for both directions)
\* more than one direction gets both directions, and when it is not
\* deprecated its class is emitted as a decodable message.
C7_MixIsBoth ==
    usage # Nil =>
        \A m \in Embedded :
            Cardinality(DeclaredUserSources(m.name)) > 1 =>
                /\ SourceOf(m.name) = SOURCE_BOTH
                /\ ~m.deprecated =>
                    /\ ~IsError(main_out)
                    /\ \E c \in EmittedClasses :
                        c.name = m.name /\ c.base = "ProtoDecodableMessage"

\* main ran on a schema where a message without source and id is used by a
\* server message and by a client message.
C7_Witness ==
    /\ usage # Nil
    /\ \E m \in Embedded :
        /\ ~m.deprecated
        /\ {SOURCE_SERVER, SOURCE_CLIENT} \subseteq DeclaredUserSources(m.name)

\* C8: a message that is not deprecated keeps the direction of its source
\* option; with an id and no source option it gets both directions; with an
\* id its class is emitted by main, used by another message or not.
C8_ExplicitSourceKeptAndIdEmitted ==
    usage # Nil =>
        \A m \in {x \in Schema : ~x.deprecated} :
            /\ m.source # NoInt => SourceOf(m.name) = m.source
            /\ (m.source = NoInt /\ m.id # NoInt) => SourceOf(m.name) = SOURCE_BOTH
            /\ m.id # NoInt =>
                /\ ~IsError(main_out)
                /\ \E c \in EmittedClasses : c.name = m.name

\* main ran on a schema with a client message that has an id and that no
\* field refers to, whose users-to-be have other directions, and with a
\* message that has an id only.
C8_Witness ==
    /\ usage # Nil
    /\ \E m \in Schema :
        /\ ~m.deprecated /\ m.source = SOURCE_CLIENT /\ m.id # NoInt
        /\ \A x \in Schema : \A k \in 1..Len(x.field) : x.field[k].type_name # m.name
    /\ \E m \in Schema :
        /\ ~m.deprecated /\ m.source = NoInt /\ m.id # NoInt
        /\ UsersOf(m.name) # {}

\* C9: a message without a guard of its own, that no field refers to under a
\* field_ifdef, has a guard only if every user carries that guard.
C9_GuardOnlyFromAllUsers ==
    usage # Nil =>
        \A m \in Schema :
            (/\ m.ifdef = None
             /\ GuardOf(m.name) # None
             /\ \A x \in Schema : \A k \in 1..Len(x.field) :
                    x.field[k].type_name = m.name => x.field[k].field_ifdef = None) =>
                \A u \in UsersOf(m.name) : GuardOf(u) = GuardOf(m.name)

(***************************************************************************)
(* find_common_fields on a group of messages sharing a base class.         *)
(***************************************************************************)
\* The groups find_common_fields is tried on: up to MaxGroup messages with
\* a field x (absent, int32, string, repeated int32, a deprecated int32, or
\* of message type Foo or Bar), y (absent, int32, string or a deprecated
\* int32) and z (absent or string), numbered upwards or downwards.
MaxGroup == 2
CommonFieldNames3 == <<"x", "y", "z">>
CommonShape(type, label, type_name, deprecated) ==
    [type |-> type, label |-> label, type_name |-> type_name, deprecated |-> deprecated]
PlainShapes ==
    {CommonShape(TYPE_INT32, LABEL_OPTIONAL, "", FALSE),
     CommonShape(TYPE_STRING, LABEL_OPTIONAL, "", FALSE),
     CommonShape(TYPE_INT32, LABEL_OPTIONAL, "", TRUE)}
CommonShapes ==
    PlainShapes \cup
    {CommonShape(TYPE_INT32, LABEL_REPEATED, "", FALSE),
     CommonShape(TYPE_MESSAGE, LABEL_OPTIONAL, ".Foo", FALSE),
     CommonShape(TYPE_MESSAGE, LABEL_OPTIONAL, ".Bar", FALSE)}
ShapesOfName(k) ==
    IF k = 1 THEN {Nil} \cup CommonShapes
    ELSE IF k < Len(CommonFieldNames3) THEN {Nil} \cup PlainShapes
    ELSE {Nil, CommonShape(TYPE_STRING, LABEL_OPTIONAL, "", FALSE)}

\* The choices of a shape (or of no field) for every name.
CommonChoices ==
    {c \in [1..Len(CommonFieldNames3) -> {Nil} \cup CommonShapes] :
        \A k \in DOMAIN c : c[k] \in ShapesOfName(k)}

\* The fields of a message under a choice, numbered upwards from 1 or
\* downwards from the number of names.
FieldsOfChoice(choice, downwards) ==
    LET present == SelectSeq([k \in 1..Len(CommonFieldNames3) |-> k],
                             LAMBDA k : choice[k] # Nil)
    IN  [p \in 1..Len(present) |->
            MkField(CommonFieldNames3[present[p]],
                    IF downwards THEN Len(CommonFieldNames3) + 1 - present[p]
                    ELSE present[p],
                    choice[present[p]].type, choice[present[p]].label,
                    choice[present[p]].type_name,
                    choice[present[p]].deprecated, None, NoInt)]

GroupMessage(i, choice, downwards) ==
    MkMessage(MessageNames[i], FALSE, None, NoInt, NoInt, "Base",
              FieldsOfChoice(choice, downwards))

InitCommon ==
    /\ \E n \in 1..MaxGroup :
        \E choices \in [1..n -> CommonChoices], first_down \in BOOLEAN,
           others_down \in BOOLEAN :
            common_in = [i \in 1..n |->
                            GroupMessage(i, choices[i],
                                         IF i = 1 THEN first_down ELSE others_down)]
    /\ common_out = Nil
    /\ IdleOld /\ IdleStripped /\ IdleRun /\ IdleRpc /\ IdleSize /\ IdleProp

CallFindCommonFields ==
    /\ common_out = Nil
    /\ common_out' = [fields |-> FindCommonFields(common_in)]
    /\ UNCHANGED <<common_in, oldVars, strippedVars, runVars, rpcVars, sizeVars, propVars>>

NextCommon == CallFindCommonFields
SpecCommon == InitCommon /\ [][NextCommon]_vars

\* The fields of a message that are not deprecated.
LiveFields(m) == {m.field[k] : k \in {j \in 1..Len(m.field) : ~m.field[j].deprecated}}

\* C11: find_common_fields returns exactly the fields, not deprecated, of
\* the first message that every other message of the group has, not
\* deprecated, under the same name, type (for a field of message type, the
\* same message) and label, whatever the field numbers.
C11_CommonFieldsExact ==
    common_out # Nil =>
        {common_out.fields[k] : k \in 1..Len(common_out.fields)} =
            {f \in LiveFields(common_in[1]) :
                \A i \in 2..Len(common_in) :
                    \E g \in LiveFields(common_in[i]) :
                        /\ g.name = f.name
                        /\ g.type = f.type
                        /\ g.type_name = f.type_name
                        /\ g.label = f.label}

(***************************************************************************)
(* Deprecated fields: main on a schema and on the same schema without one  *)
(* of its deprecated fields.                                               *)
(***************************************************************************)
\* Messages A and B each have the int32 field f1 and up to MaxExtras of the
\* fields f2 (of message type C, under a field_ifdef), f3 (of the enum), f4
\* (a double, which is not supported) and f5 (bytes with a fixed array
\* size), each deprecated or not; C has no field.
MaxExtras == 2
ExtraShapes ==
    <<[type |-> TYPE_MESSAGE, type_name |-> MessageNames[3], field_ifdef |-> "USE_F",
       fixed_array_size |-> NoInt],
      [type |-> TYPE_ENUM, type_name |-> EnumName, field_ifdef |-> None,
       fixed_array_size |-> NoInt],
      [type |-> TYPE_DOUBLE, type_name |-> "", field_ifdef |-> None,
       fixed_array_size |-> NoInt],
      [type |-> TYPE_BYTES, type_name |-> "", field_ifdef |-> None,
       fixed_array_size |-> 2]>>

\* A choice of extras: for every shape "no", "live" or "deprecated".
ExtraChoices ==
    {c \in [1..Len(ExtraShapes) -> {"no", "live", "deprecated"}] :
        Cardinality({k \in DOMAIN c : c[k] # "no"}) <= MaxExtras}

ExtraFields(choice) ==
    LET present == SelectSeq([k \in 1..Len(ExtraShapes) |-> k],
                             LAMBDA k : choice[k] # "no")
    IN  [p \in 1..Len(present) |->
            MkField(FieldNames[present[p] + 1], present[p] + 1,
                    ExtraShapes[present[p]].type, LABEL_OPTIONAL,
                    ExtraShapes[present[p]].type_name,
                    choice[present[p]] = "deprecated",
                    ExtraShapes[present[p]].field_ifdef,
                    ExtraShapes[present[p]].fixed_array_size)]

DeprecatedFile(choice_a, choice_b, id_b, base_class) ==
    [message_type |->
        <<MkMessage(MessageNames[1], FALSE, None, NoInt, 1, base_class,
                    <<MkField(FieldNames[1], 1, TYPE_INT32, LABEL_OPTIONAL, "", FALSE,
                              None, NoInt)>> \o ExtraFields(choice_a)),
          MkMessage(MessageNames[2], FALSE, None, NoInt, id_b, base_class,
                    <<MkField(FieldNames[1], 1, TYPE_INT32, LABEL_OPTIONAL, "", FALSE,
                              None, NoInt)>> \o ExtraFields(choice_b)),
          MkMessage(MessageNames[3], FALSE, None, NoInt, NoInt, None, <<>>)>>,
     enum_type |-> <<[name |-> EnumName, deprecated |-> FALSE]>>,
     service |-> DefaultService]

\* The schema without field k of message i.
WithoutField(fd, i, k) ==
    [fd EXCEPT !.message_type[i].field =
        SubSeq(@, 1, k - 1) \o SubSeq(@, k + 1, Len(@))]

InitDeprecated ==
    /\ \E choice_a \in ExtraChoices, choice_b \in ExtraChoices,
          id_b \in {NoInt, 2}, base_class \in {None, "Base"} :
            file_desc = DeprecatedFile(choice_a, choice_b, id_b, base_class)
    /\ \E i \in 1..Len(file_desc.message_type) :
        \E k \in 1..Len(file_desc.message_type[i].field) :
            /\ file_desc.message_type[i].field[k].deprecated
            /\ stripped_desc = WithoutField(file_desc, i, k)
    /\ usage = Nil
    /\ main_out = Nil
    /\ stripped_out = Nil
    /\ IdleTag /\ IdleTi /\ IdleCodec /\ IdleBuild
    /\ IdleCommon /\ IdleRun /\ IdleRpc /\ IdleSize /\ IdleProp

\* main is run on the schema without the deprecated field.
RunOf(fd, maps, out, service) ==
    [usage |-> maps, main_out |-> out, service_out |-> service,
     files |-> PbFilesWritten(out) \cup ServiceFilesWritten(service)]
RunWith(fd, maps, out) == RunOf(fd, maps, out, ServiceAfter(fd, maps, out))
RunMain(fd, maps) == RunWith(fd, maps, MainWith(fd, maps))

CallMainStripped ==
    /\ stripped_desc # Nil
    /\ stripped_out = Nil
    /\ stripped_out' = RunMain(stripped_desc, BuildTypeUsageMap(stripped_desc))
    /\ UNCHANGED <<stripped_desc, oldVars, commonVars, runVars, rpcVars, sizeVars,
                   propVars>>

NextDeprecated == CallMain \/ CallMainStripped
SpecDeprecated == InitDeprecated /\ [][NextDeprecated]_vars

\* The common field set of every base class of a schema.
CommonFieldSets(fd) == BaseClassFields(CollectMessagesByBaseClass(fd.message_type))

\* C12: a deprecated field has no effect on what the generator produces: the
\* usage edges, the maps and the used messages of build_type_usage_map, the
\* common field sets, the classes with their storage, encode, size, decode
\* and dump entries and ESTIMATED_SIZE, the service code and the files
\* written are those of the schema without the field.
C12_DeprecatedFieldHasNoEffect ==
    (main_out # Nil /\ stripped_out # Nil) =>
        /\ usage = stripped_out.usage
        /\ main_out = stripped_out.main_out
        /\ service_out = stripped_out.service_out
        /\ files = stripped_out.files
        /\ MessageUsage(file_desc) = MessageUsage(stripped_desc)
        /\ EnumUsage(file_desc) = EnumUsage(stripped_desc)
        /\ CommonFieldSets(file_desc) = CommonFieldSets(stripped_desc)

\* Both runs are through, classes were written, and the field left out was a
\* deprecated field of message type in a message with a base class.
C12_Witness ==
    /\ main_out # Nil
    /\ stripped_out # Nil
    /\ ~IsError(main_out)
    /\ file_desc.message_type[1].base_class = "Base"
    /\ Len(file_desc.message_type[1].field) = 2
    /\ file_desc.message_type[1].field[2].deprecated
    /\ file_desc.message_type[1].field[2].type = TYPE_MESSAGE
    /\ Len(stripped_desc.message_type[1].field) = 1

(***************************************************************************)
(* The read_message switch.                                                *)
(***************************************************************************)
\* Schemas of three messages without fields, each deprecated or not, with or
\* without a source option, and with no id or an id in 1..MaxServiceId.
MaxServiceId == 2
ServiceOpts ==
    [1..Len(MessageNames) ->
        [deprecated : BOOLEAN, ifdef : {None},
         source : {NoInt, SOURCE_BOTH, SOURCE_SERVER, SOURCE_CLIENT},
         id : {NoInt} \cup (1..MaxServiceId)]]

InitService ==
    /\ \E opts \in ServiceOpts : file_desc = MkFile(opts, {})
    /\ usage = Nil
    /\ main_out = Nil
    /\ IdleTag /\ IdleTi /\ IdleCodec /\ IdleBuild /\ IdleRest

SpecService == InitService /\ [][NextMain]_vars

\* The messages the switch has to dispatch: not deprecated, with an id, and
\* of direction BOTH or CLIENT.
Received ==
    {m \in Schema :
        /\ ~m.deprecated
        /\ m.id # NoInt
        /\ ServiceSource(m, usage.message_source_map) \in {SOURCE_BOTH, SOURCE_CLIENT}}

\* C14: the read_message switch has, for every message that is not
\* deprecated, has an id and has direction BOTH or CLIENT, a case labelled
\* with its id that decodes into its type and calls its own on_<name>; it
\* has no case for another message; the cases are in ascending order of id;
\* the default arm only breaks.
C14_ReadMessageCases ==
    (service_out # Nil /\ ~IsError(service_out)) =>
        LET cases == service_out.read_message.cases
        IN  /\ \A m \in Received :
                \E k \in 1..Len(cases) :
                    /\ cases[k].id = m.id
                    /\ cases[k].case[1] = [stmt |-> "declare", type |-> m.name]
                    /\ cases[k].case[4] = [stmt |-> "call", func |-> CamelToSnake(m.name)]
            /\ \A k \in 1..Len(cases) :
                \E m \in Received : cases[k].case[1].type = m.name
            /\ \A j, k \in 1..Len(cases) : j < k => cases[j].id < cases[k].id
            /\ service_out.read_message.default = <<[stmt |-> "break"]>>

(***************************************************************************)
(* The dispatch wrapper of a service method, run on a connection.  What    *)
(* check_authenticated_, check_connection_setup_ and send_message return   *)
(* is given by the connection.                                             *)
(***************************************************************************)
\* The generated handler code: the call of the user's method, then for a
\* method with a response send_message, and on_fatal_error when that fails.
RunBody(body, conn) ==
    <<[did |-> "call", func |-> body[1].func]>>
    \o (IF Len(body) = 1 THEN <<>>
        ELSE <<[did |-> "send_message", type |-> body[2].type]>>
             \o (IF conn.send_ok THEN <<>> ELSE <<[did |-> "on_fatal_error"]>>))

\* The generated on_<input>: the body, inside `if (check) { ... }` when the
\* wrapper has a check.
RunWrapper(wrapper, conn) ==
    IF wrapper.check = None THEN RunBody(wrapper.body, conn)
    ELSE <<[did |-> "check", func |-> wrapper.check]>>
         \o (IF conn[wrapper.check] THEN RunBody(wrapper.body, conn) ELSE <<>>)

\* The methods and connections tried: every setting of the two options, with
\* or without a response, on a connection in any state.
RpcMethods ==
    {MkMethod("hello", MessageNames[1], ret, needs_conn, needs_auth) :
        ret \in {"void", MessageNames[2]},
        needs_conn \in {NoInt, 0, 1}, needs_auth \in {NoInt, 0, 1}}
Connections ==
    [check_authenticated_ : BOOLEAN, check_connection_setup_ : BOOLEAN,
     send_ok : BOOLEAN]

InitRpc ==
    /\ rpc_in \in [method : RpcMethods, conn : Connections]
    /\ rpc_events = Nil
    /\ IdleOld /\ IdleCommon /\ IdleStripped /\ IdleRun /\ IdleSize /\ IdleProp

\* A message of the method's input type arrives: its wrapper runs.
CallOnFunc ==
    /\ rpc_events = Nil
    /\ rpc_events' = [events |-> RunWrapper(MethodWrapper(rpc_in.method, EmptyDict, EmptyDict),
                                            rpc_in.conn)]
    /\ UNCHANGED <<rpc_in, oldVars, commonVars, strippedVars, runVars, sizeVars, propVars>>

NextRpc == CallOnFunc
SpecRpc == InitRpc /\ [][NextRpc]_vars

\* The checks a run of the wrapper made.
ChecksMade == SelectSeq(rpc_events.events, LAMBDA e : e.did = "check")

\* C15: the wrapper of a method makes at most one check, before the handler:
\* the authentication check when authentication is required (with or without
\* connection setup), the connection setup check when only setup is
\* required, none when neither is; when the check fails the handler is not
\* called and nothing is sent.
C15_OneCheckBeforeHandler ==
    rpc_events # Nil =>
        LET needs_auth == rpc_in.method.needs_authentication # 0
            needs_conn == rpc_in.method.needs_setup_connection # 0
            events == rpc_events.events
        IN  /\ Len(ChecksMade) <= 1
            /\ needs_auth =>
                ChecksMade = <<[did |-> "check", func |-> "check_authenticated_"]>>
            /\ (~needs_auth /\ needs_conn) =>
                ChecksMade = <<[did |-> "check", func |-> "check_connection_setup_"]>>
            /\ (~needs_auth /\ ~needs_conn) => ChecksMade = <<>>
            /\ ChecksMade # <<>> => events[1] = ChecksMade[1]
            /\ (ChecksMade # <<>> /\ ~rpc_in.conn[ChecksMade[1].func]) => events = ChecksMade
            /\ (ChecksMade = <<>> \/ rpc_in.conn[ChecksMade[1].func]) =>
                \E k \in 1..Len(events) :
                    events[k] = [did |-> "call", func |-> rpc_in.method.name]

\* A method that requires both setup and authentication, with a response, was
\* run on a connection that is set up but not authenticated: only the
\* authentication check happened.
C15_Witness ==
    /\ rpc_events # Nil
    /\ rpc_in.method.needs_authentication = 1
    /\ rpc_in.method.needs_setup_connection = 1
    /\ rpc_in.method.output_type # "void"
    /\ rpc_in.conn.check_connection_setup_
    /\ ~rpc_in.conn.check_authenticated_
    /\ rpc_events.events = <<[did |-> "check", func |-> "check_authenticated_"]>>

(***************************************************************************)
(* Schemas with validation errors.                                         *)
(***************************************************************************)
\* Messages A and B, each with no id, its own id or an id of 256, with or
\* without the source SERVER, and with no field or one field f1: an int32, a
\* double (not supported), or a repeated int32 with a fixed array size of 2
\* or of LargeArraySize; C has no field and no id.
ErrorFields ==
    {<<>>,
     <<MkField(FieldNames[1], 1, TYPE_INT32, LABEL_OPTIONAL, "", FALSE, None, NoInt)>>,
     <<MkField(FieldNames[1], 1, TYPE_DOUBLE, LABEL_OPTIONAL, "", FALSE, None, NoInt)>>,
     <<MkField(FieldNames[1], 1, TYPE_INT32, LABEL_REPEATED, "", FALSE, None, 2)>>,
     <<MkField(FieldNames[1], 1, TYPE_INT32, LABEL_REPEATED, "", FALSE, None,
               LargeArraySize)>>}

ErrorMessage(i, id, source, field) ==
    MkMessage(MessageNames[i], FALSE, None, source, id, None, field)

InitErrors ==
    /\ \E id_a \in {NoInt, 1, UINT8_MAX + 1}, id_b \in {NoInt, 2, UINT8_MAX + 1},
          source_a \in {NoInt, SOURCE_SERVER}, source_b \in {NoInt, SOURCE_SERVER},
          field_a \in ErrorFields, field_b \in ErrorFields :
            file_desc =
                [message_type |-> <<ErrorMessage(1, id_a, source_a, field_a),
                                    ErrorMessage(2, id_b, source_b, field_b),
                                    ErrorMessage(3, NoInt, NoInt, <<>>)>>,
                 enum_type |-> <<[name |-> EnumName, deprecated |-> FALSE]>>,
                 service |-> DefaultService]
    /\ usage = Nil
    /\ main_out = Nil
    /\ IdleTag /\ IdleTi /\ IdleCodec /\ IdleBuild /\ IdleRest

SpecErrors == InitErrors /\ [][NextMain]_vars

\* The files a run of main may write.
OutputFiles ==
    {"api_pb2.h", "api_pb2.cpp", "api_pb2_dump.cpp", "api_pb2_service.h",
     "api_pb2_service.cpp"}

\* C16: when a validation error (a type that is not supported, a fixed array
\* on a decodable message, an id above 255, an estimated size above 255) is
\* raised for a message, main has written none of its five files.
C16_NoFileWrittenOnError ==
    (main_out # Nil /\ IsError(main_out)) => files \cap OutputFiles = {}

\* main raised for the second message, after the class of the first was
\* generated, because the estimated size is above 255; no file was written.
C16_Witness ==
    /\ main_out # Nil
    /\ IsError(main_out)
    /\ main_out.error = "ValueError: Estimated size exceeds uint8_t maximum (255)"
    /\ file_desc.message_type[1].id = 1
    /\ Len(file_desc.message_type[1].field) = 1
    /\ file_desc.message_type[1].field[1].label = LABEL_OPTIONAL
    /\ file_desc.message_type[1].field[1].type = TYPE_INT32
    /\ files = {}

(***************************************************************************)
(* ESTIMATED_SIZE against the size of an encoded message.  The size is     *)
(* what the generated calculate_size adds up through the ProtoSize helpers *)
(* of the runtime: nothing for a zero or empty singular field, else the    *)
(* tag, the varint of the value or of the length, and the bytes.           *)
(***************************************************************************)
\* The bytes of the varint of a value below 2^31.
VarintSize(v) ==
    IF v < 128 THEN 1
    ELSE IF v < 16384 THEN 2
    ELSE IF v < 2097152 THEN 3
    ELSE IF v < 268435456 THEN 4
    ELSE 5

\* The bytes of a sequence of varints, each under a tag of field_id_size bytes.
RECURSIVE RepeatedSize(_, _)
RepeatedSize(items, field_id_size) ==
    IF items = <<>> THEN 0
    ELSE field_id_size + VarintSize(Head(items)) + RepeatedSize(Tail(items), field_id_size)

\* What a statement of the generated calculate_size adds for a value: an
\* integer [int], a string of [len] bytes, or the [items] of a repeated field.
SizeAdded(calc, value) ==
    CASE calc.stmt = "if_not_empty_for" ->
            RepeatedSize(value.items, calc.calls[1].field_id_size)
      [] calc.stmt = "call" /\ calc.method = "add_string_field" ->
            IF value.len = 0 THEN 0
            ELSE calc.field_id_size + VarintSize(value.len) + value.len
      [] calc.stmt = "call" /\ calc.method = "add_bool_field" ->
            IF value.int = 0 THEN 0 ELSE calc.field_id_size + 1
      [] calc.stmt = "call" /\ calc.method = "add_uint32_field" ->
            IF value.int = 0 THEN 0 ELSE calc.field_id_size + VarintSize(value.int)

\* The size the generated calculate_size of a class computes for a value of
\* the message.
RECURSIVE CalculatedSize(_, _, _)
CalculatedSize(size_calc, values, k) ==
    IF k > Len(size_calc) THEN 0
    ELSE SizeAdded(size_calc[k].content, values[k]) + CalculatedSize(size_calc, values, k + 1)

\* The messages and values tried: one or two fields, each a uint32, a bool,
\* a string of up to MaxSizeLen bytes or a repeated uint32 of up to MaxCount
\* elements.
MaxSizeLen == 9
MaxCount == 3
SizedFields ==
    {[type |-> TYPE_UINT32, label |-> LABEL_OPTIONAL, value |-> [int |-> v]] :
        v \in {0, 5, 127, 128, 16384, 2097151, 2097152}}
    \cup {[type |-> TYPE_BOOL, label |-> LABEL_OPTIONAL, value |-> [int |-> v]] :
            v \in {0, 1}}
    \cup {[type |-> TYPE_STRING, label |-> LABEL_OPTIONAL, value |-> [len |-> n]] :
            n \in 0..MaxSizeLen}
    \cup {[type |-> TYPE_UINT32, label |-> LABEL_REPEATED,
           value |-> [items |-> [j \in 1..n |-> v]]] :
            n \in 0..MaxCount, v \in {1, 300}}

SizedMessage(fields) ==
    [desc |-> MkMessage("Msg", FALSE, None, NoInt, 1, None,
                [k \in 1..Len(fields) |->
                    MkField(FieldNames[k], k, fields[k].type, fields[k].label, "", FALSE,
                            None, NoInt)]),
     values |-> [k \in 1..Len(fields) |-> fields[k].value]]

InitSize ==
    /\ \E n \in 1..2 : \E fields \in [1..n -> SizedFields] :
            size_in = SizedMessage(fields)
    /\ size_out = Nil
    /\ IdleOld /\ IdleCommon /\ IdleStripped /\ IdleRun /\ IdleRpc /\ IdleProp

\* The class of the message is generated and the size of the value is
\* calculated by its calculate_size.
SizeOf(msg, class) ==
    [estimated |-> class.public_content[2].value,
     encoded |-> CalculatedSize(class.size_calc, msg.values, 1)]

CallCalculateSize ==
    /\ size_out = Nil
    /\ size_out' = SizeOf(size_in,
                          BuildMessageType(size_in.desc, NoBaseClassFields,
                                           [n \in {size_in.desc.name} |-> SOURCE_BOTH]))
    /\ UNCHANGED <<size_in, oldVars, commonVars, strippedVars, runVars, rpcVars, propVars>>

NextSize == CallCalculateSize
SpecSize == InitSize /\ [][NextSize]_vars

Typical(field, value) ==
    IF field.label = LABEL_REPEATED
    THEN Len(value.items) <= 2 /\ \A j \in 1..Len(value.items) : VarintSize(value.items[j]) <= 3
    ELSE IF field.type = TYPE_STRING THEN value.len <= 7
    ELSE VarintSize(value.int) <= 3

RECURSIVE ReachedFrom(_)
ReachedFrom(names) ==
    LET next == names \cup {m.name : m \in {x \in Schema :
                                ~x.deprecated /\ UsersOf(x.name) \cap names # {}}}
    IN  IF next = names THEN names ELSE ReachedFrom(next)

\* The messages, not deprecated, that have an id.
WithId == {m.name : m \in {x \in Schema : ~x.deprecated /\ x.id # NoInt}}

\* C18: a message that is not deprecated is emitted if and only if it has an
\* id or is reached from a message with an id through fields that are not
\* deprecated; a message used only by messages that are not emitted is not
\* emitted.
C18_EmittedIffReachedFromId ==
    (main_out # Nil /\ ~IsError(main_out)) =>
        \A m \in Schema :
            ~m.deprecated =>
                (m.name \in {c.name : c \in EmittedClasses} <=> m.name \in ReachedFrom(WithId))

(***************************************************************************)
(* Guards from field_ifdef.                                                *)
(***************************************************************************)
\* The fields, not deprecated and of messages not deprecated, whose type is
\* the message named.
ReferencingFields(name) ==
    {u.field : u \in {v \in UsageFields(file_desc, TYPE_MESSAGE) : v.field.type_name = name}}

\* C20: a message without a guard of its own and whose users have no guard
\* gets the field guard F only if every field, not deprecated, whose type is
\* the message declares F.
C20_FieldGuardOnlyFromAllFields ==
    usage # Nil =>
        \A m \in Schema :
            (/\ ~m.deprecated
             /\ m.ifdef = None
             /\ \A u \in UsersOf(m.name) : GuardOf(u) = None
             /\ GuardOf(m.name) # None) =>
                \A f \in ReferencingFields(m.name) : f.field_ifdef = GuardOf(m.name)

(***************************************************************************)
(* Usage chains: message i of the chain has one field, of the type of      *)
(* message i + 1.                                                          *)
(***************************************************************************)
\* Chains of 2 to MaxChain messages; the first has the id 1 and a guard of
\* its own or none.  The messages are declared along the chain or against
\* it, starting anywhere.
MaxChain == 13
ChainMessage(i, n, ifdef) ==
    MkMessage(AllNames[i], FALSE, IF i = 1 THEN ifdef ELSE None, NoInt,
              IF i = 1 THEN 1 ELSE NoInt, None,
              IF i = n THEN <<>>
              ELSE <<MkField(FieldNames[1], 1, TYPE_MESSAGE, LABEL_OPTIONAL,
                             AllNames[i + 1], FALSE, None, NoInt)>>)

ChainFile(n, ifdef, against, start) ==
    [message_type |->
        [p \in 1..n |->
            ChainMessage(1 + (((IF against THEN n - p ELSE p - 1) + start) % n), n, ifdef)],
     enum_type |-> <<[name |-> EnumName, deprecated |-> FALSE]>>,
     service |-> DefaultService]

InitChain ==
    /\ \E n \in 2..MaxChain :
        \E ifdef \in {None, "USE_G"}, against \in BOOLEAN, start \in 0..(n - 1) :
            file_desc = ChainFile(n, ifdef, against, start)
    /\ usage = Nil
    /\ main_out = Nil
    /\ IdleTag /\ IdleTi /\ IdleCodec /\ IdleBuild /\ IdleRest

SpecChain == InitChain /\ [][NextMain]_vars

\* The guards of the users of a message that have one.
UserGuards(name) == {GuardOf(u) : u \in UsersOf(name)} \ {None}

\* C19: the guards build_type_usage_map returns are a fixed point of the
\* inheritance pass: no message without a guard has users whose guards are
\* one and the same, which one more pass would give it.
C19_GuardsAreFixedPoint ==
    usage # Nil =>
        \A m \in Schema :
            GuardOf(m.name) = None => Cardinality(UserGuards(m.name)) # 1

(***************************************************************************)
(* The guard of an enum.                                                   *)
(***************************************************************************)
\* The messages, not deprecated, with a field, not deprecated, of the enum.
EnumUsers(name) ==
    IF name \in DOMAIN EnumUsage(file_desc) THEN EnumUsage(file_desc)[name] ELSE {}

\* C21: an enum all of whose using messages carry the same guard G in the
\* message guard map that build_type_usage_map returns is wrapped in G.
C21_EnumGuardFollowsFinalGuards ==
    usage # Nil =>
        \A e \in DOMAIN usage.enum_ifdef_map :
            \A g \in {"USE_G", "USE_H", "USE_F"} :
                (EnumUsers(e) # {} /\ \A u \in EnumUsers(e) : GuardOf(u) = g) =>
                    usage.enum_ifdef_map[e] = g

(***************************************************************************)
(* Repeated fields: forcing in encode and in the size calculation.         *)
(***************************************************************************)
\* The fields of the message build_message_type ran on that are not
\* deprecated: entry j of encode and of size_calc is that of field j of these.
LiveFieldSeq == SelectSeq(build_in.desc.field, LAMBDA f : ~f.deprecated)

\* C22: for a repeated field without fixed_array_size, whatever its element
\* type, every emitted encode call of an element passes force = true, and
\* the size calculation is the element count times a constant, the repeated
\* message helper, or a loop whose statement is the forced variant applied
\* to the loop element.
C22_GrowableRepeatedForced ==
    (build_out # Nil /\ ~IsError(build_out) /\ NeedsEncode(build_in.source)) =>
        \A j \in 1..Len(LiveFieldSeq) :
            (LiveFieldSeq[j].label = LABEL_REPEATED
                /\ LiveFieldSeq[j].fixed_array_size = NoInt) =>
                /\ build_out.encode[j].content.stmt = "for"
                /\ \A k \in 1..Len(build_out.encode[j].content.calls) :
                        build_out.encode[j].content.calls[k].force
                /\ \/ build_out.size_calc[j].content.stmt = "if_not_empty_multiply"
                   \/ /\ build_out.size_calc[j].content.stmt = "call"
                      /\ build_out.size_calc[j].content.method = "add_repeated_message"
                   \/ /\ build_out.size_calc[j].content.stmt = "if_not_empty_for"
                      /\ \A k \in 1..Len(build_out.size_calc[j].content.calls) :
                            /\ build_out.size_calc[j].content.calls[k].value
                                    \in {"it", "static_cast<uint32_t>(it)"}
                            /\ build_out.size_calc[j].content.calls[k].method =
                                    SizeMethod(LiveFieldSeq[j].type) \o "_repeated"


(***************************************************************************)
(* Fixed-capacity repeated fields: the elements encoded and the elements   *)
(* counted by the size calculation.                                        *)
(***************************************************************************)
\* The number of element statements FixedArrayRepeatedType writes out for an
\* array of the given size: one per element when unrolled, one loop body.
ElementStatements(array_size) == IF array_size <= 2 THEN array_size ELSE 1

\* C23: for a fixed-capacity repeated field of every supported element type,
\* the encode is one forced call per element (straight-line for sizes 1 and
\* 2, a loop from size 3), and the size calculation has the same shape with
\* the forced variant of the element's size helper for each element, so an
\* element that is zero is counted exactly when it is encoded.
C23_FixedArraySizeMatchesEncode ==
    (ti_result # Nil /\ ~IsError(ti_result) /\ ti_result.cls = "FixedArrayRepeatedType") =>
        /\ EncodeContent(ti_result).stmt =
                (IF ti_result.array_size <= 2 THEN "unrolled" ELSE "for")
        /\ Len(EncodeContent(ti_result).calls) = ElementStatements(ti_result.array_size)
        /\ \A k \in 1..Len(EncodeContent(ti_result).calls) :
                EncodeContent(ti_result).calls[k].force
        /\ GetSizeCalculation(ti_result, "this->field", FALSE).stmt =
                EncodeContent(ti_result).stmt
        /\ Len(GetSizeCalculation(ti_result, "this->field", FALSE).calls) =
                ElementStatements(ti_result.array_size)
        /\ \A k \in 1..Len(GetSizeCalculation(ti_result, "this->field", FALSE).calls) :
                GetSizeCalculation(ti_result, "this->field", FALSE).calls[k].method =
                    SizeMethod(ti_result.type) \o "_repeated"


(***************************************************************************)
(* The #ifdef structure of the emission loop.  The header, the             *)
(* implementation and the dump text get the same directives around the     *)
(* text of each message, so one sequence of directives and classes stands  *)
(* for the three.                                                          *)
(***************************************************************************)
\* The #ifdef directives not yet closed after the first k lines.
IfdefDepth(content, k) ==
    Cardinality({j \in 1..k : content[j].line = "#ifdef"})
        - Cardinality({j \in 1..k : content[j].line = "#endif"})

\* The guard open in front of line k: that of the nearest directive before
\* it when that is an #ifdef, else none.
OpenGuard(content, k) ==
    LET directives == {j \in 1..(k - 1) : content[j].line \in {"#ifdef", "#endif"}}
    IN  IF directives = {} THEN None
        ELSE LET last == CHOOSE j \in directives : \A h \in directives : h <= j
             IN  IF content[last].line = "#ifdef" THEN content[last].ifdef ELSE None

\* The messages the emission loop does not skip, in declaration order.
MessagesEmitted ==
    SelectSeq(file_desc.message_type, LAMBDA m : ~SkippedByMain(m, usage.used_messages))

\* The classes written, in the order of the text.
ClassLines == SelectSeq(main_out.content, LAMBDA l : l.line = "class")

\* C24: in the text of the emission loop the #ifdef and #endif directives are
\* balanced and never nested, the text of a message lies inside `#ifdef g`
\* exactly when its guard is g, every maximal run of emitted messages with
\* the same guard is wrapped by one pair (no pair is empty and no run is
\* closed and reopened), and skipped messages write nothing.
C24_GuardRunsBalanced ==
    (main_out # Nil /\ ~IsError(main_out)) =>
        /\ \A k \in 0..Len(main_out.content) : IfdefDepth(main_out.content, k) \in {0, 1}
        /\ IfdefDepth(main_out.content, Len(main_out.content)) = 0
        /\ \A k \in 1..Len(main_out.content) :
            /\ main_out.content[k].line = "class" =>
                    OpenGuard(main_out.content, k) = GuardOf(main_out.content[k].class.name)
            /\ main_out.content[k].line = "#ifdef" =>
                    /\ k < Len(main_out.content)
                    /\ main_out.content[k + 1].line = "class"
                    /\ k > 1 => OpenGuard(main_out.content, k - 1) # main_out.content[k].ifdef
            /\ main_out.content[k].line = "#endif" =>
                    /\ k > 1
                    /\ main_out.content[k - 1].line = "class"
        /\ Len(ClassLines) = Len(MessagesEmitted)
        /\ \A k \in 1..Len(ClassLines) : ClassLines[k].class.name = MessagesEmitted[k].name

\* Two messages with the same guard around a skipped one share one pair, and
\* a schema whose guard changes between two emitted messages.
C24_Witness ==
    /\ main_out # Nil /\ ~IsError(main_out)
    /\ file_desc.message_type[2].deprecated
    /\ Len(main_out.content) = 4
    /\ main_out.content[1].line = "#ifdef"
    /\ main_out.content[2].line = "class"
    /\ main_out.content[3].line = "class"
    /\ main_out.content[4].line = "#endif"


\* C25: for every field, not deprecated, of a message P, not deprecated, whose
\* type is a message M with neither a source option nor an id, M is decoded
\* when P is and encoded when P is.
C25_NestedFollowsContainer ==
    usage # Nil =>
        \A m \in Embedded : \A p \in UsersOf(m.name) :
            /\ NeedsDecode(usage.message_source_map[p]) =>
                    NeedsDecode(usage.message_source_map[m.name])
            /\ NeedsEncode(usage.message_source_map[p]) =>
                    NeedsEncode(usage.message_source_map[m.name])


(***************************************************************************)
(* Schemas with a base_class option: two messages with an id whose fields  *)
(* x and y are chosen independently, so that the group's common fields are *)
(* all, some or none of them.                                              *)
(***************************************************************************)
BaseFieldNames == <<"x", "y">>
BaseShapesOfName(k) ==
    IF k = 1
    THEN PlainShapes \cup {Nil, CommonShape(TYPE_MESSAGE, LABEL_OPTIONAL, MessageNames[3], FALSE)}
    ELSE {Nil, CommonShape(TYPE_INT32, LABEL_OPTIONAL, "", FALSE),
          CommonShape(TYPE_INT32, LABEL_REPEATED, "", FALSE)}

BaseChoices ==
    {c \in [1..Len(BaseFieldNames) -> BaseShapesOfName(1) \cup BaseShapesOfName(2)] :
        \A k \in DOMAIN c : c[k] \in BaseShapesOfName(k)}

\* The fields of a message under a choice, numbered upwards from 1 or
\* downwards from the number of names.
BaseFieldsOfChoice(choice, downwards) ==
    LET present == SelectSeq([k \in 1..Len(BaseFieldNames) |-> k],
                             LAMBDA k : choice[k] # Nil)
    IN  [p \in 1..Len(present) |->
            MkField(BaseFieldNames[present[p]],
                    IF downwards THEN Len(BaseFieldNames) + 1 - present[p]
                    ELSE present[p],
                    choice[present[p]].type, choice[present[p]].label,
                    choice[present[p]].type_name,
                    choice[present[p]].deprecated, None, NoInt)]

BaseFile(choice_a, choice_b, downwards, base_a, base_b, source_b) ==
    [message_type |->
        <<MkMessage(MessageNames[1], FALSE, None, NoInt, 1, base_a,
                    BaseFieldsOfChoice(choice_a, FALSE)),
          MkMessage(MessageNames[2], FALSE, None, source_b, 2, base_b,
                    BaseFieldsOfChoice(choice_b, downwards)),
          MkMessage(MessageNames[3], FALSE, None, NoInt, NoInt, None, <<>>)>>,
     enum_type |-> <<[name |-> EnumName, deprecated |-> FALSE]>>,
     service |-> DefaultService]

InitBase ==
    /\ \E choice_a \in BaseChoices, choice_b \in BaseChoices, downwards \in BOOLEAN,
          base_a \in {None, "Base"}, base_b \in {None, "Base"},
          source_b \in {NoInt, SOURCE_SERVER} :
            file_desc = BaseFile(choice_a, choice_b, downwards, base_a, base_b, source_b)
    /\ usage = Nil
    /\ main_out = Nil
    /\ IdleTag /\ IdleTi /\ IdleCodec /\ IdleBuild /\ IdleRest

SpecBase == InitBase /\ [][NextMain]_vars

\* The names of the base classes main wrote.
BaseClassesEmitted == {b.name : b \in main_out.base_classes}

\* C26: every class main writes derives from ProtoMessage, from
\* ProtoDecodableMessage or from a base class that main wrote; a message
\* whose group has no common field does not derive from the base class name.
C26_BaseClassIsEmitted ==
    (main_out # Nil /\ ~IsError(main_out)) =>
        \A class \in EmittedClasses :
            class.base \in {"ProtoMessage", "ProtoDecodableMessage"} \cup BaseClassesEmitted


\* C27: for every message with an id that the client can send, the guard
\* around the declaration of its on_ handler, the guard around its case of
\* read_message and the guard of its service method wrapper are the guard
\* that wraps its class, so none of them is unguarded while the class is
\* guarded.
C27_HandlerGuardIsClassGuard ==
    (service_out # Nil /\ ~IsError(service_out)) =>
        /\ \A k \in 1..Len(service_out.hpp) :
                service_out.hpp[k].ifdef = GuardOf(service_out.hpp[k].type)
        /\ \A k \in 1..Len(service_out.read_message.cases) :
                service_out.read_message.cases[k].ifdef =
                    GuardOf(service_out.read_message.cases[k].case[1].type)
        /\ \A k \in 1..Len(service_out.methods) :
                service_out.methods[k].ifdef = GuardOf(service_out.methods[k].inp)


\* The storage declarations of the field named in a class body.
MembersNamed(public_content, name) ==
    Cardinality({k \in 1..Len(public_content) :
        /\ "content" \in DOMAIN public_content[k]
        /\ public_content[k].content.item = "member"
        /\ public_content[k].content.field = name})

\* The class main wrote for the message named.
ClassOf(name) == CHOOSE class \in EmittedClasses : class.name = name

\* The base class main wrote under the given name.
BaseClassNamed(name) == CHOOSE b \in main_out.base_classes : b.name = name

\* The messages main wrote that derive from a base class main wrote.
DerivedMessages ==
    {m \in Schema :
        /\ ~SkippedByMain(m, usage.used_messages)
        /\ m.base_class \in BaseClassesEmitted}

\* The names of the common fields of the group of a base class.
HoistedFields(base_class) ==
    FindCommonFields(CollectMessagesByBaseClass(file_desc.message_type)[base_class])
HoistedNames(base_class) ==
    {HoistedFields(base_class)[k].name : k \in 1..Len(HoistedFields(base_class))}

\* The class of a message as build_message_type writes it when no field is
\* hoisted.
ClassWithoutBase(m) == BuildMessageType(m, <<>>, usage.message_source_map)

\* C28: for a message main writes that derives from a base class main
\* writes, the storage of every field that is not deprecated is declared
\* exactly once over the message class and the base class: in the base class
\* for a common field, in the message class for any other; and the encode,
\* size, decode and dump statements of the message class are those it has
\* without a base class, the hoisted fields included under their own numbers.
C28_StorageOnceStatementsKept ==
    (main_out # Nil /\ ~IsError(main_out)) =>
        \A m \in DerivedMessages :
            /\ \A f \in LiveFields(m) :
                /\ MembersNamed(ClassOf(m.name).public_content, f.name)
                    + MembersNamed(BaseClassNamed(m.base_class).public_content, f.name) = 1
                /\ f.name \in HoistedNames(m.base_class) <=>
                    MembersNamed(ClassOf(m.name).public_content, f.name) = 0
                /\ \E k \in 1..Len(ClassOf(m.name).dump) :
                        ClassOf(m.name).dump[k].content.field = f.name
            /\ ClassOf(m.name).encode = ClassWithoutBase(m).encode
            /\ ClassOf(m.name).size_calc = ClassWithoutBase(m).size_calc
            /\ ClassOf(m.name).decode_varint = ClassWithoutBase(m).decode_varint
            /\ ClassOf(m.name).decode_length = ClassWithoutBase(m).decode_length
            /\ ClassOf(m.name).decode_32bit = ClassWithoutBase(m).decode_32bit
            /\ ClassOf(m.name).decode_64bit = ClassWithoutBase(m).decode_64bit
            /\ ClassOf(m.name).dump = ClassWithoutBase(m).dump

\* The second message has the hoisted field x under the number 2 and a field
\* y of its own; both are encoded and decoded in its class.
C28_Witness ==
    /\ main_out # Nil /\ ~IsError(main_out)
    /\ file_desc.message_type[2] \in DerivedMessages
    /\ HoistedNames("Base") = {"x"}
    /\ Len(file_desc.message_type[2].field) = 2
    /\ file_desc.message_type[2].field[1].number = 2
    /\ MembersNamed(ClassOf("B").public_content, "x") = 0
    /\ MembersNamed(ClassOf("B").public_content, "y") = 1
    /\ Len(ClassOf("B").encode) = 2
    /\ ClassOf("B").encode[1].content.number = 2
    /\ Len(ClassOf("B").decode_varint) = 2


\* C29: a field of message or enum type that find_common_fields returns has
\* the same type name in every message of the group: two fields of one name
\* whose types are different messages (or enums) are not common.
C29_HoistedTypeNamesAgree ==
    common_out # Nil =>
        \A k \in 1..Len(common_out.fields) :
            common_out.fields[k].type \in {TYPE_MESSAGE, TYPE_ENUM} =>
                \A i \in 1..Len(common_in) : \A g \in LiveFields(common_in[i]) :
                    g.name = common_out.fields[k].name =>
                        g.type_name = common_out.fields[k].type_name


(***************************************************************************)
(* The guard propagation loop of build_type_usage_map, one pass at a time. *)
(* propagation holds message_ifdef_map, changed and iterations; pc is      *)
(* "while" in front of the loop condition and "done" once it was false.    *)
(***************************************************************************)
\* References between two different messages, cycles included.
PropagateRefs ==
    {MkRef(p[1], p[2], TYPE_MESSAGE, FALSE, None) :
        p \in {q \in NameSet \X NameSet : q[1] # q[2]}}

\* Message i with or without a guard of its own and with the id i.
PropagateOpts ==
    {opts \in IfdefOpts : \A i \in DOMAIN opts : ~opts[i].deprecated}

InitPropagate ==
    /\ \/ \E n \in 2..MaxChain :
            \E ifdef \in {None, "USE_G"}, against \in BOOLEAN, start \in 0..(n - 1) :
                file_desc = ChainFile(n, ifdef, against, start)
       \/ \E opts \in PropagateOpts, refs \in SubsetsUpTo(PropagateRefs, MaxRefs) :
            file_desc = MkFile(opts, refs)
    /\ usage = Nil
    /\ main_out = Nil
    /\ propagation = Nil
    /\ IdleTag /\ IdleTi /\ IdleCodec /\ IdleBuild
    /\ IdleCommon /\ IdleStripped /\ IdleRun /\ IdleRpc /\ IdleSize

\* The state of the loop in front of its condition.
LoopState(message_ifdef_map, changed, iterations) ==
    [message_ifdef_map |-> message_ifdef_map, changed |-> changed,
     iterations |-> iterations, pc |-> "while"]
LoopStateAfter(pass, iterations) ==
    LoopState(pass.message_ifdef_map, pass.changed, iterations)

\* The first pass built message_ifdef_map; changed = True, iterations = 0.
StartPropagation ==
    /\ propagation = Nil
    /\ propagation' =
        LoopState(FirstPassIfdefMap(file_desc, MessageToIfdef(file_desc),
                      MessageUsage(file_desc),
                      MessageFieldIfdefs(file_desc, MessageUsage(file_desc))),
                  TRUE, 0)
    /\ UNCHANGED <<oldVars, commonVars, strippedVars, runVars, rpcVars, sizeVars>>

\* One turn of `while changed and iterations < 10`.
PropagationPass ==
    /\ propagation # Nil
    /\ propagation.pc = "while"
    /\ propagation.changed /\ propagation.iterations < MAX_ITERATIONS
    /\ propagation' =
        LoopStateAfter(PropagatePassFrom(file_desc, MessageUsage(file_desc), 1,
                                         propagation.message_ifdef_map, FALSE),
                       propagation.iterations + 1)
    /\ UNCHANGED <<oldVars, commonVars, strippedVars, runVars, rpcVars, sizeVars>>

\* The loop condition is false: the loop is left.
PropagationDone ==
    /\ propagation # Nil
    /\ propagation.pc = "while"
    /\ ~(propagation.changed /\ propagation.iterations < MAX_ITERATIONS)
    /\ propagation' = [propagation EXCEPT !.pc = "done"]
    /\ UNCHANGED <<oldVars, commonVars, strippedVars, runVars, rpcVars, sizeVars>>

NextPropagate == StartPropagation \/ PropagationPass \/ PropagationDone
SpecPropagate == InitPropagate /\ [][NextPropagate]_vars

\* A guard that is set stays as it is over a step of the loop.
GuardsKept ==
    (propagation # Nil /\ propagation' # Nil) =>
        \A name \in DOMAIN propagation.message_ifdef_map :
            propagation.message_ifdef_map[name] # None =>
                propagation'.message_ifdef_map[name] = propagation.message_ifdef_map[name]

\* The guard a message declares is the guard it has in the map.
ExplicitGuardsKept ==
    \A m \in Schema :
        m.ifdef # None => propagation.message_ifdef_map[m.name] = m.ifdef

\* C30: in the propagation loop a guard that is set is never cleared or
\* replaced, a declared guard is never overwritten, and the loop is left
\* after at most (number of messages + 1) passes by a pass that changed
\* nothing, never by the iteration cap.
C30_LoopEndsOnPassWithoutChange ==
    /\ [][GuardsKept]_vars
    /\ [](propagation # Nil =>
            /\ ExplicitGuardsKept
            /\ propagation.iterations <= Len(file_desc.message_type) + 1
            /\ propagation.pc = "done" => ~propagation.changed)
====
